---- MODULE Spec2Model ----
(***************************************************************************)
(* CT-Scan-Discoverer: the per-district discovery orchestrator (CityTile), *)
(* the extraction client's de-duplication (geminiService) and the          *)
(* collection manager (App).                                               *)
(*                                                                         *)
(* React state updates are modelled at the grain of one committed update:  *)
(* every applyUpdate(updater) is one atomic replacement of the city inside *)
(* groupedCities (handleUpdateCity), the scheduler effect of a tile reads  *)
(* the committed city, and latestCityRef.current is the committed city.    *)
(* Every await of processPincode (the extraction call, the back-off timer) *)
(* is a point where any other event may be interleaved.                    *)
(***************************************************************************)
EXTENDS Integers, Sequences, FiniteSets, Bags, TLC

VARIABLES
  groupedCities,   \* App state: stateName -> sequence of CityData
  isCancelled,     \* per mounted CityTile: the isCancelled ref
  runs,            \* bag of live processPincode invocations
  env,             \* the environment: the files the user may add, the service's answers
  lastOp,          \* history: the user's operation if the last step was one
  isLoading,       \* App state: isLoading
  storage,         \* localStorage: <<>> without the STORAGE_KEY item, else <<its value>>
  loadData,        \* position of loadData: "fetch" (awaiting the CSV) or "done"
  probe            \* a function applied on its own: its inputs and what it returned

vars == <<groupedCities, isCancelled, runs, env, lastOp, isLoading, storage, loadData, probe>>

(* ----------------------------- constants ------------------------------ *)

MAX_RETRIES == 3
MAX_CONCURRENT_PINCODES == 2

\* Bounds of the model.
MaxRuns == 2       \* live processPincode invocations, in Spec
MaxRunsWide == 3   \* live processPincode invocations, in SpecWide
MaxResults == 2    \* length of a city's results list
MaxRunsStore == 2  \* live processPincode invocations, in SpecStore and SpecLive
MaxRunsAppend == 2 \* live processPincode invocations, in SpecAppend
MaxRunsTwo == 2    \* live processPincode invocations, in SpecTwo
MaxLen == 2        \* length of an address given to createAddressFingerprint on its own
MaxCandidates == 3 \* length of a parsedResponse given to the filter on its own
MaxExisting == 2   \* length of the existingResults given to the filter on its own

(* ------------------------------ strings ------------------------------- *)

\* A string is a sequence of one-character strings over this alphabet.
UpperChars == {"P", "Q", "M", "G", "R"}
LowerChars == {"p", "q", "m", "g", "r", "o", "a", "d"}
DigitChars == {"1", "2", "3"}
OtherChars == {" ", ",", ".", "!"}

toLowerCase(ch) ==
  CASE ch = "P" -> "p"
    [] ch = "Q" -> "q"
    [] ch = "M" -> "m"
    [] ch = "G" -> "g"
    [] ch = "R" -> "r"
    [] OTHER -> ch

isLowerAlnum(ch) == ch \in LowerChars \cup DigitChars

lowered(address) == [i \in 1..Len(address) |-> toLowerCase(address[i])]

\* A faulty variant of createAddressFingerprint: the address is not lowercased.
createAddressFingerprintKeepsCase(address) == SelectSeq(address, isLowerAlnum)

\* address.toLowerCase().replace(/[^a-z0-9]/g, '')
createAddressFingerprint(address) == SelectSeq(lowered(address), isLowerAlnum)

\* The addresses the extraction service may report.
Addr1 == <<"1", " ", "P">>             \* "1 P"
Addr2 == <<"1", ",", " ", "p", ".">>   \* "1, p."  (same fingerprint as Addr1)
Addr3 == <<"2", "Q">>                  \* "2Q"

ScanCenter(address) == [address |-> address]

(* --------------------------- extraction call --------------------------- *)

\* A faulty variant of existingAddressFingerprints: the set of the addresses themselves.
existingAddresses(existingResults) ==
  {existingResults[i].address : i \in 1..Len(existingResults)}

\* new Set(existingResults.map(center => createAddressFingerprint(center.address)))
existingAddressFingerprints(existingResults) ==
  {createAddressFingerprint(existingResults[i].address) : i \in 1..Len(existingResults)}

RECURSIVE filterLoopForgets(_, _, _)
\* A faulty variant of filterLoop: the fingerprint of a kept center is not added.
filterLoopForgets(parsed, fingerprints, kept) ==
  IF parsed = <<>> THEN kept
  ELSE LET newFingerprint == createAddressFingerprint(Head(parsed).address)
       IN IF newFingerprint \in fingerprints
            THEN filterLoopForgets(Tail(parsed), fingerprints, kept)
            ELSE filterLoopForgets(Tail(parsed), fingerprints, Append(kept, Head(parsed)))

RECURSIVE filterLoop(_, _, _)
\* parsedResponse.filter(...) with the growing set of fingerprints
filterLoop(parsed, fingerprints, kept) ==
  IF parsed = <<>> THEN kept
  ELSE LET newFingerprint == createAddressFingerprint(Head(parsed).address)
       IN IF newFingerprint \in fingerprints
            THEN filterLoop(Tail(parsed), fingerprints, kept)
            ELSE filterLoop(Tail(parsed), fingerprints \cup {newFingerprint},
                            Append(kept, Head(parsed)))

filteredResults(parsedResponse, fingerprints) == filterLoop(parsedResponse, fingerprints, <<>>)

\* What the remote service may answer to one findAndAnalyzeCTScans call.
\*   reject  : a generateContent call throws
\*   blank   : the grounded text or the JSON text is empty
\*   badjson : JSON.parse throws
\*   json    : a parsed list of centers
Responses(payloads) ==
  { [kind |-> "reject", body |-> <<>>],
    [kind |-> "blank", body |-> <<>>],
    [kind |-> "badjson", body |-> <<>>] }
  \cup { [kind |-> "json", body |-> p] : p \in payloads }

\* findAndAnalyzeCTScans resolves (with this list) unless the response is a reject.
callRejects(resp) == resp.kind = "reject"

\* known: the fingerprints of the existingResults the call was given
findAndAnalyzeCTScans(resp, known) ==
  CASE resp.kind = "blank" -> <<>>
    [] resp.kind = "badjson" -> <<>>
    [] OTHER -> filteredResults(resp.body, known)

(* ------------------------------ CityData ------------------------------- *)

NoError == <<>>
FailedOn(pincodeCode) == <<"Failed on pincode ", pincodeCode, ".">>

\* parseCSV's record of one district.
NewCity(stateName, name, population, codes) ==
  [ name |-> name,
    stateName |-> stateName,
    population |-> population,
    pincodes |-> [i \in 1..Len(codes) |-> [code |-> codes[i], status |-> "pending"]],
    status |-> "idle",
    results |-> <<>>,
    currentPincodeIndex |-> 0,
    centersFound |-> 0,
    error |-> NoError ]

Indexes(s) == 1..Len(s)

countStatus(city, statuses) ==
  Cardinality({i \in Indexes(city.pincodes) : city.pincodes[i].status \in statuses})

\* cityData.pincodes.filter(scanning || retrying).length
activeScans(city) == countStatus(city, {"scanning", "retrying"})

\* A faulty variant of nextPincode: the last pending or error pincode.
nextPincodeLast(city) ==
  LET eligible == {i \in Indexes(city.pincodes) :
                     city.pincodes[i].status \in {"pending", "error"}}
  IN IF eligible = {} THEN 0
     ELSE CHOOSE i \in eligible : \A j \in eligible : i >= j

\* A faulty variant of nextPincode: a pincode in error is not picked again.
nextPincodePendingOnly(city) ==
  LET eligible == {i \in Indexes(city.pincodes) : city.pincodes[i].status = "pending"}
  IN IF eligible = {} THEN 0 ELSE CHOOSE i \in eligible : \A j \in eligible : i <= j

\* index of cityData.pincodes.find(pending || error); 0 when there is none
nextPincode(city) ==
  LET eligible == {i \in Indexes(city.pincodes) :
                     city.pincodes[i].status \in {"pending", "error"}}
  IN IF eligible = {} THEN 0
     ELSE CHOOSE i \in eligible : \A j \in eligible : i <= j

everyScanned(city) ==
  \A i \in Indexes(city.pincodes) : city.pincodes[i].status = "scanned"

\* A faulty variant of mapStatus: the pincodes with another code are dropped.
mapStatusDropsOthers(city, code, status) ==
  LET hit(p) == p.code = code
      kept == SelectSeq(city.pincodes, hit)
  IN [i \in Indexes(kept) |-> [kept[i] EXCEPT !.status = status]]

\* A faulty variant of mapStatus: the status is set on the first pincode of the list.
mapStatusOfFirst(city, code, status) ==
  [i \in Indexes(city.pincodes) |->
     IF i = 1 THEN [city.pincodes[i] EXCEPT !.status = status] ELSE city.pincodes[i]]

mapStatus(city, code, status) ==
  [i \in Indexes(city.pincodes) |->
     IF city.pincodes[i].code = code
       THEN [city.pincodes[i] EXCEPT !.status = status]
       ELSE city.pincodes[i]]

(* --------------------- the updaters passed to applyUpdate -------------- *)

completedUpdate(prevCity) ==
  IF prevCity.status = "completed" THEN prevCity
  ELSE [prevCity EXCEPT !.status = "completed"]

attemptUpdate(prevCity, pincodeCode, attempt) ==
  [prevCity EXCEPT
     !.pincodes = mapStatus(prevCity, pincodeCode,
                            IF attempt > 1 THEN "retrying" ELSE "scanning")]

\* A faulty variant of successUpdate: counts one center per successful call.
successUpdateCountsCalls(prevCity, pincodeCode, centers) ==
  [prevCity EXCEPT
     !.results = prevCity.results \o centers,
     !.centersFound = prevCity.centersFound + 1,
     !.pincodes = mapStatus(prevCity, pincodeCode, "scanned"),
     !.error = NoError]

successUpdate(prevCity, pincodeCode, centers) ==
  [prevCity EXCEPT
     !.results = prevCity.results \o centers,
     !.centersFound = prevCity.centersFound + Len(centers),
     !.pincodes = mapStatus(prevCity, pincodeCode, "scanned"),
     !.error = NoError]

\* A faulty variant of errorUpdate: the failure of a pincode fails the district.
errorUpdateFailsCity(prevCity, pincodeCode) ==
  [prevCity EXCEPT
     !.status = "error",
     !.pincodes = mapStatus(prevCity, pincodeCode, "error"),
     !.error = FailedOn(pincodeCode)]

errorUpdate(prevCity, pincodeCode) ==
  [prevCity EXCEPT
     !.pincodes = mapStatus(prevCity, pincodeCode, "error"),
     !.error = FailedOn(pincodeCode)]

resetCity(prevCity) ==
  [prevCity EXCEPT
     !.status = "running",
     !.currentPincodeIndex = 0,
     !.centersFound = 0,
     !.results = <<>>,
     !.error = NoError,
     !.pincodes = [i \in Indexes(prevCity.pincodes) |->
                     [prevCity.pincodes[i] EXCEPT !.status = "pending"]]]

hasScannedPincodes(prevCity) ==
  \E i \in Indexes(prevCity.pincodes) : prevCity.pincodes[i].status = "scanned"

\* A faulty variant of handleDiscoverUpdate: every discover starts over.
handleDiscoverAlwaysResets(prevCity) == resetCity(prevCity)

\* A faulty variant of handleDiscoverUpdate: starting over keeps the old results.
handleDiscoverKeepsResults(prevCity) ==
  IF prevCity.status = "completed" \/ ~hasScannedPincodes(prevCity)
    THEN [resetCity(prevCity) EXCEPT !.results = prevCity.results,
                                     !.centersFound = prevCity.centersFound]
    ELSE [prevCity EXCEPT !.status = "running", !.error = NoError]

handleDiscoverUpdate(prevCity) ==
  IF prevCity.status = "completed" \/ ~hasScannedPincodes(prevCity)
    THEN resetCity(prevCity)
    ELSE [prevCity EXCEPT !.status = "running", !.error = NoError]

\* A faulty variant of handleManualRetryUpdate: the district's status is left as it was.
handleManualRetryKeepsStatus(prevCity, pincodeCode) ==
  [prevCity EXCEPT
     !.pincodes = mapStatus(prevCity, pincodeCode, "pending"),
     !.error = NoError]

handleManualRetryUpdate(prevCity, pincodeCode) ==
  [prevCity EXCEPT
     !.status = "running",
     !.pincodes = mapStatus(prevCity, pincodeCode, "pending"),
     !.error = NoError]

\* A faulty variant of handleStopUpdate: every pincode not scanned goes back to pending.
handleStopResetsAll(prevCity) ==
  [prevCity EXCEPT
     !.status = "stopped",
     !.pincodes = [i \in Indexes(prevCity.pincodes) |->
                     IF prevCity.pincodes[i].status # "scanned"
                       THEN [prevCity.pincodes[i] EXCEPT !.status = "pending"]
                       ELSE prevCity.pincodes[i]]]

\* A faulty variant of handleStopUpdate: only scanning pincodes go back to pending.
handleStopKeepsRetrying(prevCity) ==
  [prevCity EXCEPT
     !.status = "stopped",
     !.pincodes = [i \in Indexes(prevCity.pincodes) |->
                     IF prevCity.pincodes[i].status = "scanning"
                       THEN [prevCity.pincodes[i] EXCEPT !.status = "pending"]
                       ELSE prevCity.pincodes[i]]]

handleStopUpdate(prevCity) ==
  [prevCity EXCEPT
     !.status = "stopped",
     !.pincodes = [i \in Indexes(prevCity.pincodes) |->
                     IF prevCity.pincodes[i].status \in {"scanning", "retrying"}
                       THEN [prevCity.pincodes[i] EXCEPT !.status = "pending"]
                       ELSE prevCity.pincodes[i]]]

\* An updater closure, as data: its kind and what it captured.
applyUpdater(u, prevCity) ==
  CASE u.kind = "completed" -> completedUpdate(prevCity)
    [] u.kind = "attempt" -> attemptUpdate(prevCity, u.code, u.attempt)
    [] u.kind = "success" -> successUpdate(prevCity, u.code, u.centers)
    [] u.kind = "error" -> errorUpdate(prevCity, u.code)
    [] u.kind = "discover" -> handleDiscoverUpdate(prevCity)
    [] u.kind = "retry" -> handleManualRetryUpdate(prevCity, u.code)
    [] u.kind = "stop" -> handleStopUpdate(prevCity)

(* --------------------------- collection manager ------------------------ *)

\* A faulty variant of handleUpdateCity: the updater is applied to every city of the state.
handleUpdateCityOfState(prevGroupedCities, stateName, cityName, u) ==
  IF stateName \notin DOMAIN prevGroupedCities THEN prevGroupedCities
  ELSE [prevGroupedCities EXCEPT
          ![stateName] = [i \in 1..Len(@) |-> applyUpdater(u, @[i])]]

\* citiesInState.findIndex(c => c.name === cityName); 0 stands for -1
findIndex(cities, cityName) ==
  LET hits == {i \in Indexes(cities) : cities[i].name = cityName}
  IN IF hits = {} THEN 0 ELSE CHOOSE i \in hits : \A j \in hits : i <= j

\* A faulty variant of handleUpdateCity: a state or a city that is missing is created.
handleUpdateCityCreates(prevGroupedCities, stateName, cityName, u) ==
  LET created == applyUpdater(u, NewCity(stateName, cityName, 0, <<>>))
  IN IF stateName \notin DOMAIN prevGroupedCities
       THEN prevGroupedCities @@ (stateName :> <<created>>)
       ELSE LET citiesInState == prevGroupedCities[stateName]
                cityIndex == findIndex(citiesInState, cityName)
            IN IF cityIndex = 0
                 THEN [prevGroupedCities EXCEPT ![stateName] = Append(@, created)]
                 ELSE [prevGroupedCities EXCEPT
                         ![stateName][cityIndex] = applyUpdater(u, citiesInState[cityIndex])]

handleUpdateCity(prevGroupedCities, stateName, cityName, u) ==
  IF stateName \notin DOMAIN prevGroupedCities THEN prevGroupedCities
  ELSE LET citiesInState == prevGroupedCities[stateName]
           cityIndex == findIndex(citiesInState, cityName)
       IN IF cityIndex = 0 THEN prevGroupedCities
          ELSE [prevGroupedCities EXCEPT
                  ![stateName][cityIndex] = applyUpdater(u, citiesInState[cityIndex])]

\* The mounted tiles: one CityTile per city of each StateGroup, keyed by name.
Tiles(grouped) ==
  UNION {{<<s, grouped[s][i].name>> : i \in Indexes(grouped[s])} : s \in DOMAIN grouped}

\* The cityData prop of tile t (also latestCityRef.current).
cityOf(grouped, t) == grouped[t[1]][findIndex(grouped[t[1]], t[2])]

\* a.name.localeCompare(b.name) < 0, for the district names of the model
NAME_ORDER == <<"Mumbai", "Mysuru", "Nagpur", "Pune">>
nameRank(name) == CHOOSE i \in Indexes(NAME_ORDER) : NAME_ORDER[i] = name
localeCompare(a, b) == nameRank(a) - nameRank(b)

\* Array.prototype.sort is stable: a city goes after every city not greater than it.
insertByName(sorted, city) ==
  LET before == {i \in Indexes(sorted) : localeCompare(sorted[i].name, city.name) <= 0}
      k == IF before = {} THEN 0 ELSE CHOOSE i \in before : \A j \in before : j <= i
  IN SubSeq(sorted, 1, k) \o <<city>> \o SubSeq(sorted, k + 1, Len(sorted))

\* A faulty variant of sortByName: the lists are left in the order of insertion.
sortByNameKeepsOrder(cities) == cities

RECURSIVE sortByName(_)
sortByName(cities) ==
  IF cities = <<>> THEN <<>>
  ELSE insertByName(sortByName(SubSeq(cities, 1, Len(cities) - 1)), cities[Len(cities)])

\* A faulty variant of max: the incoming value wins.
maxTakesIncoming(a, b) == b

max(a, b) == IF a >= b THEN a ELSE b

\* A faulty variant of mergeOne: every incoming pincode is appended, known or not.
mergeOneAppendsAll(clonedGrouped, additionalCity) ==
  LET stateName == additionalCity.stateName
  IN IF stateName \notin DOMAIN clonedGrouped
       THEN clonedGrouped @@ (stateName :> <<additionalCity>>)
       ELSE
         LET citiesInState == clonedGrouped[stateName]
             cityIndex == findIndex(citiesInState, additionalCity.name)
         IN IF cityIndex = 0
              THEN [clonedGrouped EXCEPT ![stateName] = Append(citiesInState, additionalCity)]
              ELSE
                LET existingCity == citiesInState[cityIndex]
                IN [clonedGrouped EXCEPT ![stateName][cityIndex] =
                      [existingCity EXCEPT
                         !.population = max(existingCity.population,
                                            additionalCity.population),
                         !.pincodes = existingCity.pincodes \o additionalCity.pincodes]]

\* A faulty variant of mergeOne: a district that is already there is replaced by the
\* incoming one, extended by the codes only the old one had.
mergeOneRestartsCity(clonedGrouped, additionalCity) ==
  LET stateName == additionalCity.stateName
  IN IF stateName \notin DOMAIN clonedGrouped
       THEN clonedGrouped @@ (stateName :> <<additionalCity>>)
       ELSE
         LET citiesInState == clonedGrouped[stateName]
             cityIndex == findIndex(citiesInState, additionalCity.name)
         IN IF cityIndex = 0
              THEN [clonedGrouped EXCEPT ![stateName] = Append(citiesInState, additionalCity)]
              ELSE
                LET existingCity == citiesInState[cityIndex]
                    incoming ==
                      {additionalCity.pincodes[i].code : i \in Indexes(additionalCity.pincodes)}
                    kept == SelectSeq(existingCity.pincodes,
                                      LAMBDA p : p.code \notin incoming)
                IN [clonedGrouped EXCEPT ![stateName][cityIndex] =
                      [additionalCity EXCEPT
                         !.population = max(existingCity.population,
                                            additionalCity.population),
                         !.pincodes = [i \in Indexes(kept) |->
                                         [kept[i] EXCEPT !.status = "pending"]]
                                      \o additionalCity.pincodes]]

\* A faulty variant of mergeOne: the district is not looked up in its state and is
\* appended as a new one.
mergeOneNeverFinds(clonedGrouped, additionalCity) ==
  LET stateName == additionalCity.stateName
  IN IF stateName \notin DOMAIN clonedGrouped
       THEN clonedGrouped @@ (stateName :> <<additionalCity>>)
       ELSE [clonedGrouped EXCEPT ![stateName] = Append(@, additionalCity)]

\* The body of the loop over newCities, for one additionalCity.
mergeOne(clonedGrouped, additionalCity) ==
  LET stateName == additionalCity.stateName
  IN IF stateName \notin DOMAIN clonedGrouped
       THEN clonedGrouped @@ (stateName :> <<additionalCity>>)
       ELSE
         LET citiesInState == clonedGrouped[stateName]
             cityIndex == findIndex(citiesInState, additionalCity.name)
         IN IF cityIndex = 0
              THEN [clonedGrouped EXCEPT ![stateName] = Append(citiesInState, additionalCity)]
              ELSE
                LET existingCity == citiesInState[cityIndex]
                    existingPincodes ==
                      {existingCity.pincodes[i].code : i \in Indexes(existingCity.pincodes)}
                    unseen == SelectSeq(additionalCity.pincodes,
                                        LAMBDA p : p.code \notin existingPincodes)
                    mergedPincodes ==
                      existingCity.pincodes \o
                      [i \in Indexes(unseen) |-> [unseen[i] EXCEPT !.status = "pending"]]
                    addedNewPincode == unseen # <<>>
                IN IF addedNewPincode \/ additionalCity.population > existingCity.population
                     THEN [clonedGrouped EXCEPT ![stateName][cityIndex] =
                             [existingCity EXCEPT
                                !.population = max(existingCity.population,
                                                   additionalCity.population),
                                !.pincodes = mergedPincodes]]
                     ELSE clonedGrouped

RECURSIVE mergeLoop(_, _)
mergeLoop(clonedGrouped, newCities) ==
  IF newCities = <<>> THEN clonedGrouped
  ELSE mergeLoop(mergeOne(clonedGrouped, Head(newCities)), Tail(newCities))

mergeAdditionalCities(existingGrouped, newCities) ==
  IF newCities = <<>> THEN existingGrouped
  ELSE LET clonedGrouped == mergeLoop(existingGrouped, newCities)
       IN [stateName \in DOMAIN clonedGrouped |-> sortByName(clonedGrouped[stateName])]

(* ------------------------------ the data ------------------------------- *)

\* An environment: Selected_centers.csv as parseCSV delivers it, the files the user
\* may add with "Add Additional Data" (as parseCSV delivers them) and the lists of
\* centers the remote service may answer with.
ScenarioThree ==
  \* three pincodes, a file that repeats known data, a service that finds nothing
  [ csv |-> <<NewCity("MH", "Pune", 100, <<"411001", "411002", "411003">>)>>,
    uploads |-> { <<NewCity("MH", "Pune", 100, <<"411001">>)>> },
    payloads |-> { <<>> } ]

ScenarioMerge ==
  \* one pincode and a file that adds another, a service that finds two centers
  [ csv |-> <<NewCity("MH", "Pune", 100, <<"411001">>)>>,
    uploads |-> { <<NewCity("MH", "Pune", 150, <<"411001", "411003">>)>> },
    payloads |-> { <<>>, <<ScanCenter(Addr1), ScanCenter(Addr3)>> } ]

ScenarioDedup ==
  \* two pincodes, a service that finds one center under two spellings
  [ csv |-> <<NewCity("MH", "Pune", 100, <<"411001", "411002">>)>>,
    uploads |-> {},
    payloads |-> { <<>>, <<ScanCenter(Addr1)>>, <<ScanCenter(Addr2)>> } ]

Scenarios == {ScenarioMerge, ScenarioDedup}

ScenarioAppend ==
  \* one pincode and a file that adds another, a service that finds nothing
  [ csv |-> <<NewCity("MH", "Pune", 100, <<"411001">>)>>,
    uploads |-> { <<NewCity("MH", "Pune", 150, <<"411001", "411003">>)>> },
    payloads |-> { <<>> } ]

ScenarioTwo ==
  \* two districts of one state, no file, a service that finds nothing
  [ csv |-> <<NewCity("MH", "Mumbai", 200, <<"400001">>),
              NewCity("MH", "Pune", 100, <<"411001">>)>>,
    uploads |-> {},
    payloads |-> { <<>> } ]

RECURSIVE grouping(_)
\* citiesData.reduce((acc, city) => { acc[stateName].push(city) }, {})
grouping(citiesData) ==
  IF citiesData = <<>> THEN <<>>
  ELSE LET acc == grouping(SubSeq(citiesData, 1, Len(citiesData) - 1))
           city == citiesData[Len(citiesData)]
       IN IF city.stateName \in DOMAIN acc
            THEN [acc EXCEPT ![city.stateName] = Append(@, city)]
            ELSE acc @@ (city.stateName :> <<city>>)

NoCode == "-"

RECURSIVE sumLen(_)
sumLen(cities) ==
  IF cities = <<>> THEN 0 ELSE Len(Head(cities).pincodes) + sumLen(Tail(cities))

RECURSIVE sumOver(_, _)
sumOver(grouped, stateNames) ==
  IF stateNames = {} THEN 0
  ELSE LET s == CHOOSE s \in stateNames : TRUE
       IN sumLen(grouped[s]) + sumOver(grouped, stateNames \ {s})

\* The number of pincodes of the whole collection.
pincodeCount(grouped) == sumOver(grouped, DOMAIN grouped)

\* The last step, when it was an operation of the user: the operation, its tile and
\* pincode, and (was) the status and the number of results before a discover, the
\* number of active pincodes before a stop, the number of pincodes of the collection
\* before a merge. NoOp after every other step.
NoOp == [op |-> "-", tile |-> <<>>, code |-> NoCode, was |-> "-"]

Event(op, t, code, pre) ==
  [op |-> op, tile |-> t, code |-> code,
   was |-> CASE op = "discover" -> <<pre.status, Len(pre.results)>>
             [] op = "stop" -> activeScans(pre)
             [] op = "merge" -> pre
             [] OTHER -> "-"]

\* One invocation of processPincode, suspended at an await: pc is "call" (awaiting
\* findAndAnalyzeCTScans, which was given results with the fingerprints known) or
\* "wait" (awaiting the RETRY_DELAY_MS timer). stopped is history: handleStop was
\* applied while the invocation was suspended at this await.
Run(t, code, attempt, pc, known) ==
  [tile |-> t, code |-> code, attempt |-> attempt, pc |-> pc, known |-> known,
   stopped |-> FALSE]

count(bag, r) == IF r \in BagToSet(bag) THEN bag[r] ELSE 0

markStopped(bag, t) ==
  LET mark(r) == IF r.tile = t THEN [r EXCEPT !.stopped = TRUE] ELSE r
      live == BagToSet(bag)
  IN [x \in {mark(r) : r \in live} |->
        count(bag, x) +
        (IF x.tile = t THEN count(bag, [x EXCEPT !.stopped = FALSE]) ELSE 0)]

LiveRuns == BagToSet(runs)

remount(grouped) ==
  [t \in Tiles(grouped) |-> IF t \in DOMAIN isCancelled THEN isCancelled[t] ELSE FALSE]

(* ----------------------------- persistence ---------------------------- *)

\* JSON.stringify leaves out a property whose value is undefined.
stringifyCity(city) ==
  IF city.error = NoError THEN [f \in DOMAIN city \ {"error"} |-> city[f]] ELSE city

\* JSON.stringify(groupedCities)
stringify(grouped) ==
  [s \in DOMAIN grouped |-> [i \in Indexes(grouped[s]) |-> stringifyCity(grouped[s][i])]]

\* Reading a property that the parsed object lacks gives undefined.
parseCity(json) ==
  IF "error" \in DOMAIN json THEN json ELSE json @@ [error |-> NoError]

\* JSON.parse(storedData)
parse(text) ==
  [s \in DOMAIN text |-> [i \in Indexes(text[s]) |-> parseCity(text[s][i])]]

\* localStorage.getItem(STORAGE_KEY) === null
NoItem == <<>>

\* A faulty variant of setItem: a write that fails takes the old item with it.
setItemLosesItem(item, value, ok) == IF ok THEN <<value>> ELSE NoItem

\* localStorage.setItem(STORAGE_KEY, value): it throws (quota) when ok is false.
setItem(item, value, ok) == IF ok THEN <<value>> ELSE item

hasData(grouped) == DOMAIN grouped # {}

\* A faulty variant of save: the item of an emptied collection is left in place.
saveNeverRemoves(item, grouped, loading, ok) ==
  IF loading \/ ~hasData(grouped) THEN item
  ELSE setItem(item, stringify(grouped), ok)

\* The body of the save effect of App: nothing while loading, the snapshot of a
\* collection with data, no item for an empty one. What setItem throws is caught
\* and logged.
save(item, grouped, loading, ok) ==
  IF loading THEN item
  ELSE IF hasData(grouped) THEN setItem(item, stringify(grouped), ok)
  ELSE NoItem

\* The save effect runs after a commit that set groupedCities or isLoading; every
\* commit of the model sets a new collection object or a new isLoading.
saveEffect ==
  \E ok \in env.writes : storage' = save(storage, groupedCities', isLoading', ok)

\* A commit of groupedCities by a tile or by the merge, and the save effect after it.
commit ==
  /\ UNCHANGED <<isLoading, loadData, probe>>
  /\ saveEffect

\* A step that sets no state of App: no render, no effect.
noCommit == UNCHANGED <<groupedCities, isLoading, loadData, storage, probe>>

(* ------------------------------- Init ---------------------------------- *)

\* What is fixed during a behaviour: Selected_centers.csv, the files the user may
\* add, the service's answers, the bound on live invocations, whether setItem may
\* throw (writes) and whether reading the item may (reads).
Environment(sc, maxRuns) ==
  [csv |-> sc.csv, uploads |-> sc.uploads, payloads |-> sc.payloads, maxRuns |-> maxRuns,
   writes |-> {TRUE}, reads |-> {TRUE}]

\* No function is applied on its own.
NoProbe == [fn |-> "-"]

\* The state once loadData has read the CSV: every district idle, every tile mounted,
\* the collection saved.
InitFrom(scenarios, maxRuns) ==
  \E sc \in scenarios :
  /\ groupedCities = grouping(sc.csv)
  /\ isCancelled = [t \in Tiles(grouping(sc.csv)) |-> FALSE]
  /\ env = Environment(sc, maxRuns)
  /\ runs = EmptyBag
  /\ lastOp = NoOp
  /\ isLoading = FALSE
  /\ storage = <<stringify(grouping(sc.csv))>>
  /\ loadData = "done"
  /\ probe = NoProbe

Init == InitFrom(Scenarios, MaxRuns)

InitWide == InitFrom({ScenarioThree}, MaxRunsWide)

(* ------------------------- the user's operations ----------------------- *)

\* The button shows "Stop" while the status is running, the discover button otherwise.
HandleDiscover(t) ==
  /\ cityOf(groupedCities, t).status # "running"
  /\ isCancelled' = [isCancelled EXCEPT ![t] = FALSE]
  /\ groupedCities' = handleUpdateCity(groupedCities, t[1], t[2], [kind |-> "discover"])
  /\ lastOp' = Event("discover", t, NoCode, cityOf(groupedCities, t))
  /\ UNCHANGED <<runs, env>>
  /\ commit

HandleStop(t) ==
  /\ cityOf(groupedCities, t).status = "running"
  /\ isCancelled' = [isCancelled EXCEPT ![t] = TRUE]
  /\ groupedCities' = handleUpdateCity(groupedCities, t[1], t[2], [kind |-> "stop"])
  /\ runs' = markStopped(runs, t)
  /\ lastOp' = Event("stop", t, NoCode, cityOf(groupedCities, t))
  /\ UNCHANGED env
  /\ commit

\* The badge's onClick is bound only while the pincode's status is error.
HandleManualRetry(t, i) ==
  LET city == cityOf(groupedCities, t)
  IN /\ i \in Indexes(city.pincodes)
     /\ city.pincodes[i].status = "error"
     /\ groupedCities' = handleUpdateCity(groupedCities, t[1], t[2],
                            [kind |-> "retry", code |-> city.pincodes[i].code])
     /\ lastOp' = Event("retry", t, city.pincodes[i].code, city)
     /\ UNCHANGED <<isCancelled, runs, env>>
     /\ commit

\* "Add Additional Data" is shown once loading is over and there is data.
HandleAdditionalDataUpload(additionalCities) ==
  /\ ~isLoading /\ hasData(groupedCities)
  /\ groupedCities' = mergeAdditionalCities(groupedCities, additionalCities)
  /\ isCancelled' = remount(groupedCities')
  /\ lastOp' = Event("merge", <<>>, NoCode, pincodeCount(groupedCities))
  /\ UNCHANGED <<runs, env>>
  /\ commit

(* ----------------------- the scheduler effect -------------------------- *)

schedulerAwake(t) ==
  /\ cityOf(groupedCities, t).status = "running"
  /\ ~isCancelled[t]

\* A faulty variant of SchedulerCompletes: the district is completed as soon as no
\* pending or error pincode is left.
SchedulerCompletesEarly(t) ==
  LET city == cityOf(groupedCities, t)
  IN /\ schedulerAwake(t)
     /\ nextPincode(city) = 0
     /\ groupedCities' = handleUpdateCity(groupedCities, t[1], t[2], [kind |-> "completed"])
     /\ lastOp' = NoOp
     /\ commit
     /\ UNCHANGED <<isCancelled, runs, env>>

\* No pending or error pincode is left, none is active and all are scanned.
SchedulerCompletes(t) ==
  LET city == cityOf(groupedCities, t)
  IN /\ schedulerAwake(t)
     /\ nextPincode(city) = 0
     /\ activeScans(city) = 0 /\ everyScanned(city)
     /\ groupedCities' = handleUpdateCity(groupedCities, t[1], t[2], [kind |-> "completed"])
     /\ lastOp' = NoOp
     /\ commit
     /\ UNCHANGED <<isCancelled, runs, env>>

\* processPincode(nextPincode.code) up to its first await: attempt 1.
SchedulerStarts(t) ==
  LET city == cityOf(groupedCities, t)
      k == nextPincode(city)
  IN /\ schedulerAwake(t)
     /\ k # 0
     /\ activeScans(city) < MAX_CONCURRENT_PINCODES
     /\ BagCardinality(runs) < env.maxRuns
     /\ groupedCities' = handleUpdateCity(groupedCities, t[1], t[2],
                            [kind |-> "attempt", code |-> city.pincodes[k].code, attempt |-> 1])
     /\ runs' = runs (+) SetToBag({Run(t, city.pincodes[k].code, 1, "call",
                                        existingAddressFingerprints(city.results))})
     /\ lastOp' = NoOp
     /\ UNCHANGED <<isCancelled, env>>
     /\ commit

(* ------------------- processPincode after its awaits ------------------- *)

finish(r) == runs (-) SetToBag({r})

\* await findAndAnalyzeCTScans(...) resolves with centers.
CallResolves(r, resp) ==
  LET t == r.tile
      city == cityOf(groupedCities, t)
      centers == findAndAnalyzeCTScans(resp, r.known)
  IN /\ r.pc = "call"
     /\ ~callRejects(resp)
     /\ runs' = finish(r)
     /\ UNCHANGED <<isCancelled, env>>
     /\ lastOp' = NoOp
     /\ IF isCancelled[t]
          THEN noCommit
          ELSE /\ Len(city.results) + Len(centers) <= MaxResults
               /\ groupedCities' = handleUpdateCity(groupedCities, t[1], t[2],
                                      [kind |-> "success", code |-> r.code, centers |-> centers])
               /\ commit

\* await findAndAnalyzeCTScans(...) rejects: the catch block, and after the last
\* attempt the code after the loop.
CallRejects(r) ==
  LET t == r.tile
      city == cityOf(groupedCities, t)
  IN /\ r.pc = "call"
     /\ UNCHANGED <<isCancelled, env>>
     /\ lastOp' = NoOp
     /\ IF r.attempt < MAX_RETRIES
          THEN /\ runs' = finish(r) (+) SetToBag({Run(t, r.code, r.attempt, "wait", {})})
               /\ noCommit
          ELSE /\ runs' = finish(r)
               /\ IF isCancelled[t]
                    THEN noCommit
                    ELSE /\ groupedCities' = handleUpdateCity(groupedCities, t[1], t[2],
                                                [kind |-> "error", code |-> r.code])
                         /\ commit

\* The RETRY_DELAY_MS timer fires: the next iteration of the loop, up to its await.
TimerFires(r) ==
  LET t == r.tile
      city == cityOf(groupedCities, t)
  IN /\ r.pc = "wait"
     /\ UNCHANGED <<isCancelled, env>>
     /\ lastOp' = NoOp
     /\ IF isCancelled[t]
          THEN /\ runs' = finish(r)
               /\ noCommit
          ELSE /\ runs' = finish(r) (+)
                            SetToBag({Run(t, r.code, r.attempt + 1, "call",
                                          existingAddressFingerprints(city.results))})
               /\ groupedCities' = handleUpdateCity(groupedCities, t[1], t[2],
                                      [kind |-> "attempt", code |-> r.code,
                                       attempt |-> r.attempt + 1])
               /\ commit

(* ------------------------------- Next ---------------------------------- *)

Next ==
  \/ \E t \in Tiles(groupedCities) : HandleDiscover(t)
  \/ \E t \in Tiles(groupedCities) : HandleStop(t)
  \/ \E t \in Tiles(groupedCities), i \in 1..3 : HandleManualRetry(t, i)
  \/ \E u \in env.uploads : HandleAdditionalDataUpload(u)
  \/ \E t \in Tiles(groupedCities) : SchedulerCompletes(t)
  \/ \E t \in Tiles(groupedCities) : SchedulerStarts(t)
  \/ \E r \in LiveRuns, resp \in Responses(env.payloads) : CallResolves(r, resp)
  \/ \E r \in LiveRuns : CallRejects(r)
  \/ \E r \in LiveRuns : TimerFires(r)

Spec == Init /\ [][Next]_vars

\* The three-pincode environment with room for one more live invocation.
SpecWide == InitWide /\ [][Next]_vars

InitAppend == InitFrom({ScenarioAppend}, MaxRunsAppend)

\* A district that a file extends by a pincode.
SpecAppend == InitAppend /\ [][Next]_vars

InitTwo == InitFrom({ScenarioTwo}, MaxRunsTwo)

\* The events of the tiles.
NextTiles ==
  \/ \E t \in Tiles(groupedCities) : HandleDiscover(t)
  \/ \E t \in Tiles(groupedCities) : HandleStop(t)
  \/ \E t \in Tiles(groupedCities), i \in 1..3 : HandleManualRetry(t, i)
  \/ \E t \in Tiles(groupedCities) : SchedulerCompletes(t)
  \/ \E t \in Tiles(groupedCities) : SchedulerStarts(t)
  \/ \E r \in LiveRuns, resp \in Responses(env.payloads) : CallResolves(r, resp)
  \/ \E r \in LiveRuns : CallRejects(r)
  \/ \E r \in LiveRuns : TimerFires(r)

\* Two districts side by side.
SpecTwo == InitTwo /\ [][NextTiles]_vars

(* ------------------- load, save, reset and restart --------------------- *)

ScenarioStore ==
  \* two pincodes, a file that raises the population, a service that finds nothing
  [ csv |-> <<NewCity("MH", "Pune", 100, <<"411001", "411002">>)>>,
    uploads |-> { <<NewCity("MH", "Pune", 150, <<"411001">>)>> },
    payloads |-> { <<>> } ]

ScenarioFlaky ==
  \* one pincode, a file that raises the population, a service that finds nothing
  [ csv |-> <<NewCity("MH", "Pune", 100, <<"411001">>)>>,
    uploads |-> { <<NewCity("MH", "Pune", 150, <<"411001">>)>> },
    payloads |-> { <<>> } ]

\* The page opened for the first time: App is mounted, nothing is stored, loadData
\* awaits the CSV.
InitApp(sc, writes, reads) ==
  /\ groupedCities = <<>>
  /\ isCancelled = <<>>
  /\ env = [Environment(sc, MaxRunsStore) EXCEPT !.writes = writes, !.reads = reads]
  /\ runs = EmptyBag
  /\ lastOp = NoOp
  /\ isLoading = TRUE
  /\ storage = NoItem
  /\ loadData = "fetch"
  /\ probe = NoProbe

\* loadData after await fetch(...) and await response.text(): the grouped CSV is
\* set, then isLoading is cleared (one commit), and the save effect runs.
FetchResolves ==
  /\ loadData = "fetch"
  /\ groupedCities' = grouping(env.csv)
  /\ isCancelled' = [t \in Tiles(groupedCities') |-> FALSE]
  /\ isLoading' = FALSE
  /\ loadData' = "done"
  /\ lastOp' = NoOp
  /\ UNCHANGED <<runs, env, probe>>
  /\ saveEffect

\* loadData when the fetch fails or the response is not ok: the catch block and
\* the finally block; the collection stays empty.
FetchFails ==
  /\ loadData = "fetch"
  /\ isLoading' = FALSE
  /\ loadData' = "done"
  /\ lastOp' = NoOp
  /\ UNCHANGED <<groupedCities, isCancelled, runs, env, probe>>
  /\ saveEffect

\* handleReset: the item is removed, isLoading is set and the collection emptied.
\* The effect that calls loadData has no dependencies and does not run again. The
\* tiles unmount; what their invocations of processPincode still apply finds no
\* city (handleUpdateCity returns prevGroupedCities), so they leave the model.
HandleReset ==
  /\ ~isLoading /\ hasData(groupedCities)
  /\ storage' = NoItem
  /\ isLoading' = TRUE
  /\ groupedCities' = <<>>
  /\ isCancelled' = <<>>
  /\ runs' = EmptyBag
  /\ lastOp' = Event("reset", <<>>, NoCode, <<>>)
  /\ UNCHANGED <<env, loadData, probe>>

\* The page is loaded again: memory is lost, the item stays. App mounts and loadData
\* runs to its first await or to its end: with an item that can be read and parsed
\* the collection is the parsed item; when reading it throws the collection stays
\* empty; without an item the CSV is fetched. The save effect runs after the mount
\* and after the commit of what loadData set.
Restart ==
  /\ runs' = EmptyBag
  /\ lastOp' = Event("restart", <<>>, NoCode, <<>>)
  /\ UNCHANGED <<env, probe>>
  /\ IF storage # NoItem
       THEN \E ok \in env.reads :
              /\ groupedCities' = IF ok THEN parse(storage[1]) ELSE <<>>
              /\ isLoading' = FALSE
              /\ loadData' = "done"
       ELSE /\ groupedCities' = <<>>
            /\ isLoading' = TRUE
            /\ loadData' = "fetch"
  /\ isCancelled' = [t \in Tiles(groupedCities') |-> FALSE]
  /\ \E ok \in env.writes : storage' = save(storage, groupedCities', isLoading', ok)

NextStore ==
  \/ Next
  \/ FetchResolves
  \/ FetchFails
  \/ HandleReset
  \/ Restart

InitStore == InitApp(ScenarioFlaky, {TRUE, FALSE}, {TRUE, FALSE})

\* Storage whose writes and reads may throw.
SpecStore == InitStore /\ [][NextStore]_vars

InitLive == InitApp(ScenarioStore, {TRUE}, {TRUE})

\* Reliable storage; what the program does by itself it does eventually: the
\* scheduler effect runs after a commit, a call settles, a timer fires, the fetch
\* ends. Nothing is assumed of the user.
SpecLive ==
  /\ InitLive /\ [][NextStore]_vars
  /\ WF_vars(\E t \in Tiles(groupedCities) : SchedulerStarts(t))
  /\ WF_vars(\E t \in Tiles(groupedCities) : SchedulerCompletes(t))
  /\ WF_vars(\E r \in LiveRuns : CallRejects(r) \/ CallResolves(r, [kind |-> "blank", body |-> <<>>]))
  /\ WF_vars(\E r \in LiveRuns : TimerFires(r))
  /\ WF_vars(FetchResolves \/ FetchFails)

(* --------------- mergeAdditionalCities on its own ---------------------- *)

\* Districts as discovery leaves them once every call has settled.
PuneIdle == NewCity("MH", "Pune", 100, <<"411001", "411002">>)

PuneStopped ==
  [PuneIdle EXCEPT
     !.status = "stopped",
     !.pincodes = <<[code |-> "411001", status |-> "scanned"],
                    [code |-> "411002", status |-> "pending"]>>,
     !.results = <<ScanCenter(Addr1)>>,
     !.centersFound = 1]

PuneCompleted ==
  [PuneIdle EXCEPT
     !.status = "completed",
     !.pincodes = <<[code |-> "411001", status |-> "scanned"],
                    [code |-> "411002", status |-> "scanned"]>>,
     !.results = <<ScanCenter(Addr1)>>,
     !.centersFound = 1]

MumbaiIdle == NewCity("MH", "Mumbai", 200, <<"400001">>)

\* The collections a merge may find: parseCSV's order (by state, then by name).
MergeCollections ==
  {grouping(<<pune>>) : pune \in {PuneIdle, PuneStopped, PuneCompleted}}
  \cup {grouping(<<MumbaiIdle, pune>>) : pune \in {PuneIdle, PuneStopped}}

\* The files the user may add, as parseCSV delivers them.
MergeUploads ==
  { <<NewCity("MH", "Pune", 150, <<"411001", "411003">>)>>,
    <<NewCity("MH", "Pune", 80, <<"411001">>)>>,
    <<NewCity("MH", "Pune", 80, <<"411003", "411004">>)>>,
    <<NewCity("KA", "Mysuru", 50, <<"570001">>)>>,
    <<NewCity("MH", "Mumbai", 250, <<"400001">>), NewCity("MH", "Nagpur", 90, <<"440001">>)>>,
    <<NewCity("KA", "Mysuru", 50, <<"570001", "570002">>), NewCity("MH", "Nagpur", 90, <<"440001">>)>> }

InitMerge ==
  \E existing \in MergeCollections :
  /\ groupedCities = existing
  /\ isCancelled = [t \in Tiles(existing) |-> cityOf(existing, t).status = "stopped"]
  /\ env = Environment([csv |-> <<>>, uploads |-> MergeUploads, payloads |-> {}], 0)
  /\ runs = EmptyBag
  /\ lastOp = NoOp
  /\ isLoading = FALSE
  /\ storage = <<stringify(existing)>>
  /\ loadData = "done"
  /\ probe = NoProbe

NextMerge == \E u \in env.uploads : HandleAdditionalDataUpload(u)

SpecMerge == InitMerge /\ [][NextMerge]_vars

(* ------------------ functions applied on their own --------------------- *)

\* The application does nothing while a function is applied on its own.
app == <<groupedCities, isCancelled, runs, env, lastOp, isLoading, storage, loadData>>

appAtRest ==
  /\ groupedCities = <<>>
  /\ isCancelled = <<>>
  /\ env = Environment([csv |-> <<>>, uploads |-> {}, payloads |-> {}], 0)
  /\ runs = EmptyBag
  /\ lastOp = NoOp
  /\ isLoading = TRUE
  /\ storage = NoItem
  /\ loadData = "fetch"

\* What a function has not returned yet is <<>>, what it returned is <<value>>.
NotYet == <<>>
Returned(value) == <<value>>

\* The characters of the addresses tried, and two addresses that differ in
\* punctuation only.
ProbeChars == {"P", "p", "1", " ", ","}
Example1 == <<"1", "2", "3", ",", " ", "M", "G", " ", "R", "o", "a", "d", "!">>
Example2 == <<"1", "2", "3", " ", "M", "G", " ", "R", "o", "a", "d">>

Addresses ==
  UNION {[1..n -> ProbeChars] : n \in 0..MaxLen} \cup {Example1, Example2}

InitFingerprint ==
  /\ appAtRest
  /\ \E a \in Addresses, b \in Addresses :
       probe = [fn |-> "createAddressFingerprint", address |-> a, other |-> b,
                print |-> NotYet, otherPrint |-> NotYet, reprint |-> NotYet]

\* createAddressFingerprint(address)
FingerprintAddress ==
  /\ probe.print = NotYet
  /\ probe' = [probe EXCEPT !.print = Returned(createAddressFingerprint(probe.address))]
  /\ UNCHANGED app

\* createAddressFingerprint(other)
FingerprintOther ==
  /\ probe.otherPrint = NotYet
  /\ probe' = [probe EXCEPT !.otherPrint = Returned(createAddressFingerprint(probe.other))]
  /\ UNCHANGED app

\* createAddressFingerprint(createAddressFingerprint(address))
FingerprintAgain ==
  /\ probe.print # NotYet /\ probe.reprint = NotYet
  /\ probe' = [probe EXCEPT !.reprint = Returned(createAddressFingerprint(probe.print[1]))]
  /\ UNCHANGED app

NextFingerprint == FingerprintAddress \/ FingerprintOther \/ FingerprintAgain

SpecFingerprint == InitFingerprint /\ [][NextFingerprint]_vars

\* The lists of at most n centers at the addresses the service may report.
Centers(n) ==
  UNION {[1..k -> {ScanCenter(a) : a \in {Addr1, Addr2, Addr3}}] : k \in 0..n}

InitFilter ==
  /\ appAtRest
  /\ \E parsedResponse \in Centers(MaxCandidates), existingResults \in Centers(MaxExisting) :
       probe = [fn |-> "filter", parsedResponse |-> parsedResponse,
                existingResults |-> existingResults,
                filteredResults |-> NotYet, again |-> NotYet, against |-> NotYet]

\* The filtering logic of findAndAnalyzeCTScans on parsedResponse and existingResults.
FilterNew ==
  /\ probe.filteredResults = NotYet
  /\ probe' = [probe EXCEPT !.filteredResults =
                 Returned(filteredResults(probe.parsedResponse,
                                          existingAddressFingerprints(probe.existingResults)))]
  /\ UNCHANGED app

\* The filtering logic on what it returned, with existingResults followed by what it
\* returned as the existing results (the next call of a pincode, after the success
\* update appended the centers).
FilterSurvivors ==
  /\ probe.filteredResults # NotYet /\ probe.again = NotYet
  /\ probe' = [probe EXCEPT !.again =
                 Returned(filteredResults(probe.filteredResults[1],
                            existingAddressFingerprints(probe.existingResults
                                                          \o probe.filteredResults[1])))]
  /\ UNCHANGED app

\* The filtering logic on what it returned, with parsedResponse as the existing results.
FilterAgainstCandidates ==
  /\ probe.filteredResults # NotYet /\ probe.against = NotYet
  /\ probe' = [probe EXCEPT !.against =
                 Returned(filteredResults(probe.filteredResults[1],
                            existingAddressFingerprints(probe.parsedResponse)))]
  /\ UNCHANGED app

NextFilter == FilterNew \/ FilterSurvivors \/ FilterAgainstCandidates

SpecFilter == InitFilter /\ [][NextFilter]_vars

PincodeStatus == {"pending", "scanning", "scanned", "error", "retrying"}
CityDiscoveryStatus == {"idle", "running", "stopped", "completed", "error"}

\* Pune in any status, its two pincodes in any status, with or without a center.
StopCities ==
  { [PuneIdle EXCEPT
       !.status = status,
       !.pincodes = <<[code |-> "411001", status |-> first],
                      [code |-> "411002", status |-> second]>>,
       !.results = results,
       !.centersFound = Len(results)] :
      status \in CityDiscoveryStatus, first \in PincodeStatus, second \in PincodeStatus,
      results \in {<<>>, <<ScanCenter(Addr1)>>} }

InitStop ==
  /\ appAtRest
  /\ \E city \in StopCities, cancelled \in BOOLEAN :
       probe = [fn |-> "handleStop", city |-> city, isCancelled |-> cancelled,
                once |-> NotYet, twice |-> NotYet]

\* handleStop of a tile whose city and isCancelled ref are these.
handleStop(tile) == [city |-> handleStopUpdate(tile.city), isCancelled |-> TRUE]

StopOnce ==
  /\ probe.once = NotYet
  /\ probe' = [probe EXCEPT !.once =
                 Returned(handleStop([city |-> probe.city, isCancelled |-> probe.isCancelled]))]
  /\ UNCHANGED app

StopAgain ==
  /\ probe.once # NotYet /\ probe.twice = NotYet
  /\ probe' = [probe EXCEPT !.twice = Returned(handleStop(probe.once[1]))]
  /\ UNCHANGED app

NextStop == StopOnce \/ StopAgain

SpecStop == InitStop /\ [][NextStop]_vars


(* ======================= properties of the orchestrator ================= *)

Before(t) == cityOf(groupedCities, t)
After(t) == cityOf(groupedCities', t)

statuses(city) == [i \in Indexes(city.pincodes) |-> city.pincodes[i].status]
codes(city) == [i \in Indexes(city.pincodes) |-> city.pincodes[i].code]

\* The calls to findAndAnalyzeCTScans of tile t that have not settled.
callsInFlight(t) ==
  LET calls == {r \in LiveRuns : r.tile = t /\ r.pc = "call"}
  IN BagCardinality([r \in calls |-> runs[r]])

\* This step is the settling of the call (or the firing of the timer) that the
\* live invocation r awaits.
resumes(r) == count(runs', r) < count(runs, r)

\* This step is the user's operation op on tile t.
userDid(op, t) == lastOp'.op = op /\ lastOp'.tile = t

(* C1: in every reachable state of a district at most MAX_CONCURRENT_PINCODES (2)  *)
(* pincodes are scanning or retrying.                                              *)
C1_AtMostTwoActive ==
  \A t \in Tiles(groupedCities) : activeScans(Before(t)) <= MAX_CONCURRENT_PINCODES

(* C2: for every district the number of extraction calls issued and not yet        *)
(* settled never exceeds 2, also across a stop followed by a start while earlier   *)
(* calls are outstanding.                                                          *)
C2_AtMostTwoCallsInFlight ==
  \A t \in Tiles(groupedCities) : callsInFlight(t) <= MAX_CONCURRENT_PINCODES

(* C3: an extraction call that was in flight when handleStop was applied changes,  *)
(* when it settles, no pincode status and neither results, centersFound nor error, *)
(* whatever happened in between.                                                   *)
C3_StoppedCallNeverMutates ==
  [][\A r \in LiveRuns :
       (r.pc = "call" /\ r.stopped /\ resumes(r)) =>
         /\ After(r.tile).pincodes = Before(r.tile).pincodes
         /\ After(r.tile).results = Before(r.tile).results
         /\ After(r.tile).centersFound = Before(r.tile).centersFound
         /\ After(r.tile).error = Before(r.tile).error]_vars

(* C4: in every reachable state of every district centersFound equals the length   *)
(* of results.                                                                     *)
C4_CentersFoundIsLength ==
  \A t \in Tiles(groupedCities) : Before(t).centersFound = Len(Before(t).results)

\* A district with centers found, a pincode scanned and another added by a merge.
C4_Witness ==
  \E t \in Tiles(groupedCities) :
    /\ lastOp.op = "merge"
    /\ Before(t).centersFound = 2 /\ Len(Before(t).results) = 2
    /\ Len(Before(t).pincodes) = 2
    /\ statuses(Before(t)) = <<"scanned", "pending">>

(* C5: in every reachable state a district's status is completed if and only if    *)
(* every one of its pincodes is scanned.                                           *)
C5_CompletedIffAllScanned ==
  \A t \in Tiles(groupedCities) :
    (Before(t).status = "completed") <=> everyScanned(Before(t))

(* C6: when a successful extraction is folded into the district, no center is      *)
(* appended whose address fingerprint equals that of a center already in the       *)
(* district's results at that moment, or of another center appended with it; so    *)
(* results never hold two centers with equal fingerprints.                         *)
C6_NoDuplicateAppended ==
  [][\A t \in Tiles(groupedCities) :
       LET old == Before(t).results
           new == After(t).results
       IN Len(new) > Len(old) =>
            \A k \in (Len(old) + 1)..Len(new) :
              \A j \in 1..(k - 1) :
                createAddressFingerprint(new[k].address) #
                  createAddressFingerprint(new[j].address)]_vars

(* C7: handleDiscover on a district that has a scanned pincode and is not          *)
(* completed keeps every scanned pincode scanned, keeps results and centersFound   *)
(* and sets the status to running; and handleStop turns a scanning pincode into a  *)
(* pending one, so that stop followed by discover loses no progress.               *)
C7_ResumeKeepsProgress ==
  [][\A t \in Tiles(groupedCities) :
       /\ (userDid("discover", t) /\ hasScannedPincodes(Before(t))
             /\ Before(t).status # "completed") =>
            /\ \A i \in Indexes(Before(t).pincodes) :
                 Before(t).pincodes[i].status = "scanned" =>
                   After(t).pincodes[i] = Before(t).pincodes[i]
            /\ Len(After(t).pincodes) = Len(Before(t).pincodes)
            /\ After(t).results = Before(t).results
            /\ After(t).centersFound = Before(t).centersFound
            /\ After(t).status = "running"
       /\ userDid("stop", t) =>
            \A i \in Indexes(Before(t).pincodes) :
              Before(t).pincodes[i].status = "scanning" =>
                After(t).pincodes[i].status = "pending"]_vars

\* A stopped district with results, a scanned and a pending pincode has been resumed.
C7_Witness ==
  \E t \in Tiles(groupedCities) :
    /\ lastOp.op = "discover" /\ lastOp.tile = t /\ lastOp.was[1] = "stopped"
    /\ Before(t).status = "running"
    /\ Before(t).results # <<>>
    /\ \E i \in Indexes(Before(t).pincodes) : Before(t).pincodes[i].status = "scanned"
    /\ \E i \in Indexes(Before(t).pincodes) : Before(t).pincodes[i].status = "pending"

(* C8: handleDiscover on a district that has no scanned pincode, or is completed,  *)
(* sets every pincode to pending, empties results, sets centersFound to 0, clears  *)
(* error and sets the status to running.                                           *)
C8_DiscoverStartsOver ==
  [][\A t \in Tiles(groupedCities) :
       (userDid("discover", t)
          /\ (~hasScannedPincodes(Before(t)) \/ Before(t).status = "completed")) =>
         /\ codes(After(t)) = codes(Before(t))
         /\ \A i \in Indexes(After(t).pincodes) : After(t).pincodes[i].status = "pending"
         /\ After(t).results = <<>>
         /\ After(t).centersFound = 0
         /\ After(t).error = NoError
         /\ After(t).status = "running"]_vars

\* A completed district that had results has been started over.
C8_Witness ==
  \E t \in Tiles(groupedCities) :
    /\ lastOp.op = "discover" /\ lastOp.tile = t
    /\ lastOp.was[1] = "completed" /\ lastOp.was[2] > 0
    /\ Before(t).results = <<>>
    /\ \A i \in Indexes(Before(t).pincodes) : Before(t).pincodes[i].status = "pending"

(* C9: handleStop sets the status to stopped and every scanning or retrying        *)
(* pincode to pending, and leaves every pending, scanned and error pincode, the    *)
(* results, centersFound, the order of the pincodes and the population unchanged.  *)
C9_StopRevertsActiveOnly ==
  [][\A t \in Tiles(groupedCities) :
       userDid("stop", t) =>
         /\ After(t).status = "stopped"
         /\ codes(After(t)) = codes(Before(t))
         /\ \A i \in Indexes(Before(t).pincodes) :
              After(t).pincodes[i].status =
                IF Before(t).pincodes[i].status \in {"scanning", "retrying"}
                  THEN "pending"
                  ELSE Before(t).pincodes[i].status
         /\ After(t).results = Before(t).results
         /\ After(t).centersFound = Before(t).centersFound
         /\ After(t).population = Before(t).population]_vars

\* A district with results and a scanned pincode was stopped while a retry attempt
\* was in flight.
C9_Witness ==
  \E t \in Tiles(groupedCities) :
    /\ lastOp.op = "stop" /\ lastOp.tile = t /\ lastOp.was >= 1
    /\ Before(t).status = "stopped"
    /\ Before(t).results # <<>>
    /\ \E i \in Indexes(Before(t).pincodes) : Before(t).pincodes[i].status = "scanned"
    /\ \E r \in LiveRuns : r.tile = t /\ r.stopped /\ r.pc = "call" /\ r.attempt = 2

(* C10: handleManualRetry takes effect only on a pincode whose status is error: it *)
(* sets that pincode to pending and the district to running and changes no other   *)
(* pincode, nor results or centersFound; on another pincode nothing happens.       *)
C10_RetryOnlyFromError ==
  [][\A t \in Tiles(groupedCities) :
       userDid("retry", t) =>
         /\ \E i \in Indexes(Before(t).pincodes) :
              /\ Before(t).pincodes[i].code = lastOp'.code
              /\ Before(t).pincodes[i].status = "error"
         /\ codes(After(t)) = codes(Before(t))
         /\ \A i \in Indexes(Before(t).pincodes) :
              After(t).pincodes[i].status =
                IF Before(t).pincodes[i].code = lastOp'.code
                  THEN "pending"
                  ELSE Before(t).pincodes[i].status
         /\ After(t).status = "running"
         /\ After(t).results = Before(t).results
         /\ After(t).centersFound = Before(t).centersFound]_vars

\* A pincode of a stopped district with results has been retried by hand.
C10_Witness ==
  \E t \in Tiles(groupedCities) :
    /\ lastOp.op = "retry" /\ lastOp.tile = t
    /\ Before(t).status = "running" /\ isCancelled[t]
    /\ Before(t).results # <<>>
    /\ \E i \in Indexes(Before(t).pincodes) :
         Before(t).pincodes[i].code = lastOp.code /\ Before(t).pincodes[i].status = "pending"
    /\ \E i \in Indexes(Before(t).pincodes) : Before(t).pincodes[i].status = "scanned"


\* The status of the pincode with this code.
statusOf(city, code) ==
  LET i == CHOOSE i \in Indexes(city.pincodes) : city.pincodes[i].code = code
  IN city.pincodes[i].status

\* This step suspends one more invocation like r.
suspends(r) == count(runs', r) > count(runs, r)

(* C11: one invocation of processPincode issues at most MAX_RETRIES (3) calls; the  *)
(* update at the start of attempt 1 sets the pincode to scanning, the one at the    *)
(* start of attempts 2 and 3 to retrying; when the third call rejects and the tile  *)
(* is not cancelled, the invocation ends, the pincode becomes error, the district's *)
(* error is the message with that code, and the district's status, results and      *)
(* centersFound are left as they were.                                              *)
C11_ThreeAttemptsThenError ==
  [][/\ \A r \in BagToSet(runs') :
          /\ r.attempt \in 1..MAX_RETRIES
          /\ (suspends(r) /\ r.pc = "call" /\ ~r.stopped) =>
               statusOf(After(r.tile), r.code) =
                 IF r.attempt = 1 THEN "scanning" ELSE "retrying"
     /\ \A r \in LiveRuns :
          (CallRejects(r) /\ r.attempt = MAX_RETRIES /\ ~isCancelled[r.tile]) =>
            /\ BagCardinality(runs') = BagCardinality(runs) - 1
            /\ statusOf(After(r.tile), r.code) = "error"
            /\ After(r.tile).error = FailedOn(r.code)
            /\ After(r.tile).status = Before(r.tile).status
            /\ After(r.tile).results = Before(r.tile).results
            /\ After(r.tile).centersFound = Before(r.tile).centersFound]_vars

\* A running district whose pincode has failed three times, nothing else in flight.
C11_Witness ==
  \E t \in Tiles(groupedCities) :
    /\ Before(t).status = "running" /\ ~isCancelled[t]
    /\ runs = EmptyBag
    /\ \E i \in Indexes(Before(t).pincodes) :
         /\ Before(t).pincodes[i].status = "error"
         /\ Before(t).error = FailedOn(Before(t).pincodes[i].code)

\* The answer whose JSON text cannot be parsed.
Malformed == [kind |-> "badjson", body |-> <<>>]

(* C12: an attempt whose response cannot be parsed as a list of centers is a failed *)
(* attempt: it does not set the pincode to scanned, and before the third attempt    *)
(* the invocation goes on to wait for its next attempt.                             *)
C12_MalformedIsFailedAttempt ==
  [][\A r \in LiveRuns :
       (CallResolves(r, Malformed) /\ ~isCancelled[r.tile]) =>
         /\ statusOf(After(r.tile), r.code) = statusOf(Before(r.tile), r.code)
         /\ r.attempt < MAX_RETRIES =>
              suspends(Run(r.tile, r.code, r.attempt, "wait", {}))]_vars


\* The user's last step was a merge.
merged == lastOp'.op = "merge"

isPrefix(a, b) == Len(a) <= Len(b) /\ SubSeq(b, 1, Len(a)) = a

(* C13: a merge changes, for no district already in the collection, the status of   *)
(* a pincode it has, its results, centersFound, status or error, and removes no     *)
(* district and no pincode, whatever the district's status.                        *)
C13_MergeKeepsProgress ==
  [][merged =>
       /\ DOMAIN groupedCities \subseteq DOMAIN groupedCities'
       /\ \A t \in Tiles(groupedCities) :
            /\ t \in Tiles(groupedCities')
            /\ isPrefix(Before(t).pincodes, After(t).pincodes)
            /\ After(t).results = Before(t).results
            /\ After(t).centersFound = Before(t).centersFound
            /\ After(t).status = Before(t).status
            /\ After(t).error = Before(t).error]_vars

\* A merge has added a pincode to a running district whose call is outstanding.
C13_Witness ==
  \E t \in Tiles(groupedCities) :
    /\ lastOp.op = "merge" /\ lastOp.was = 1
    /\ Before(t).status = "running"
    /\ statuses(Before(t)) = <<"scanning", "pending">>
    /\ \E r \in LiveRuns : r.tile = t /\ r.pc = "call"


\* The tile an incoming city is merged into, or would become.
tileOf(city) == <<city.stateName, city.name>>

codeSet(city) == {city.pincodes[i].code : i \in Indexes(city.pincodes)}

(* C14: when a merge finds an incoming district whose state and name exist, the    *)
(* merged district's pincodes are the existing ones in their order, followed by    *)
(* exactly the incoming codes not yet present, each pending, in incoming order.    *)
C14_MergedPincodes ==
  [][\A u \in env.uploads :
       HandleAdditionalDataUpload(u) =>
         \A k \in Indexes(u) :
           tileOf(u[k]) \in Tiles(groupedCities) =>
             LET old == Before(tileOf(u[k])).pincodes
                 new == After(tileOf(u[k])).pincodes
                 fresh == SelectSeq(u[k].pincodes,
                                    LAMBDA p : p.code \notin codeSet(Before(tileOf(u[k]))))
             IN /\ Len(new) = Len(old) + Len(fresh)
                /\ \A i \in Indexes(old) : new[i] = old[i]
                /\ \A i \in Indexes(fresh) :
                     new[Len(old) + i] = [code |-> fresh[i].code, status |-> "pending"]]_vars

\* Pune with [411001: scanned, 411002: pending] merged with [411001, 411003].
C14_Witness ==
  /\ lastOp.op = "merge" /\ lastOp.was = 2
  /\ LET pune == cityOf(groupedCities, <<"MH", "Pune">>)
     IN /\ pune.pincodes = <<[code |-> "411001", status |-> "scanned"],
                             [code |-> "411002", status |-> "pending"],
                             [code |-> "411003", status |-> "pending"]>>
        /\ pune.population = 150

(* C15: after an incoming district is merged into the existing district of the     *)
(* same state and name, the population is the maximum of the existing and the      *)
(* incoming one, and never lower than the existing one.                            *)
C15_MergedPopulationIsMax ==
  [][\A u \in env.uploads :
       HandleAdditionalDataUpload(u) =>
         \A k \in Indexes(u) :
           tileOf(u[k]) \in Tiles(groupedCities) =>
             LET old == Before(tileOf(u[k])).population
                 new == After(tileOf(u[k])).population
             IN /\ new >= old /\ new >= u[k].population
                /\ new \in {old, u[k].population}]_vars

\* A smaller incoming population came with new pincodes: the population stayed.
C15_Witness ==
  /\ lastOp.op = "merge"
  /\ LET pune == cityOf(groupedCities, <<"MH", "Pune">>)
     IN /\ "411004" \in codeSet(pune)
        /\ "411003" = pune.pincodes[3].code
        /\ pune.population = 100

sortedByName(cities) ==
  \A i, j \in Indexes(cities) :
    i < j => localeCompare(cities[i].name, cities[j].name) < 0

(* C16: a merge puts an incoming district unchanged under a new state when its     *)
(* state is absent and into the state's list when the state exists and the name is *)
(* absent; in the result every state's list is sorted by name and holds each name  *)
(* once.                                                                           *)
C16_MergeInsertsSorted ==
  [][\A u \in env.uploads :
       HandleAdditionalDataUpload(u) =>
         /\ \A k \in Indexes(u) :
              tileOf(u[k]) \notin Tiles(groupedCities) =>
                /\ tileOf(u[k]) \in Tiles(groupedCities')
                /\ After(tileOf(u[k])) = u[k]
         /\ Tiles(groupedCities') = Tiles(groupedCities) \cup {tileOf(u[k]) : k \in Indexes(u)}
         /\ \A s \in DOMAIN groupedCities' :
              /\ sortedByName(groupedCities'[s])
              /\ Len(groupedCities'[s]) =
                   Cardinality({t \in Tiles(groupedCities') : t[1] = s})]_vars

\* A new state came in, and two districts went in front of the one that was there.
C16_Witness ==
  /\ lastOp.op = "merge"
  /\ DOMAIN groupedCities = {"KA", "MH"}
  /\ [i \in Indexes(groupedCities["MH"]) |-> groupedCities["MH"][i].name]
       = <<"Mumbai", "Nagpur", "Pune">>
  /\ groupedCities["KA"] = <<NewCity("KA", "Mysuru", 50, <<"570001">>)>>


PuneTile == <<"MH", "Pune">>

\* Pune is mounted and its discovery is running.
puneRunning ==
  /\ PuneTile \in Tiles(groupedCities)
  /\ cityOf(groupedCities, PuneTile).status = "running"

\* The page was reloaded and the snapshot holds Pune running, this pincode scanning
\* or retrying.
reloadedUnscanned(code) ==
  /\ lastOp.op = "restart"
  /\ puneRunning
  /\ statusOf(cityOf(groupedCities, PuneTile), code) \in {"scanning", "retrying"}

\* A call of findAndAnalyzeCTScans for this pincode of Pune is outstanding.
attempted(code) ==
  \E r \in LiveRuns : r.tile = PuneTile /\ r.code = code /\ r.pc = "call"

(* C17: after a restart that reloads a snapshot written while the district was     *)
(* running, every pincode that is not scanned is attempted again as long as the    *)
(* district is running; stated here for the pincodes stored as scanning or         *)
(* retrying: a call is issued for each of them, none stays scanning or retrying    *)
(* for ever without a call, unless the district leaves the running status.         *)
C17_ReloadResumesUnscanned ==
  \A code \in {"411001", "411002"} :
    reloadedUnscanned(code) ~> (attempted(code) \/ ~puneRunning)


\* What the item is when it mirrors the collection.
mirror(grouped) == IF hasData(grouped) THEN <<stringify(grouped)>> ELSE NoItem

(* C18 as stated: once loading is over, after every committed change the item is   *)
(* the snapshot of the collection when the collection has data and is absent when  *)
(* it is empty; nothing is written while loading.                                  *)
C18_ItemMirrorsCollection ==
  [][/\ ~isLoading' => storage' = mirror(groupedCities')
     /\ (isLoading /\ isLoading') => storage' = storage]_vars

(* C18, amended: once loading is over, after every committed change the item is    *)
(* the snapshot of the collection when the collection has data, unless setItem     *)
(* threw, and then the item is what it was; it is absent when the collection is    *)
(* empty; nothing is written while loading (handleReset removes the item).         *)
C18_ItemMirrorsUnlessWriteFails ==
  [][/\ ~isLoading' => storage' \in {mirror(groupedCities'), storage}
     /\ (~isLoading' /\ ~hasData(groupedCities')) => storage' = NoItem
     /\ isLoading' => (storage' = storage \/ (lastOp'.op = "reset" /\ storage' = NoItem))]_vars

\* The snapshot of the running district was written; the write after the
\* completion update threw.
C18_Witness ==
  /\ ~isLoading /\ puneRunning = FALSE
  /\ PuneTile \in Tiles(groupedCities)
  /\ cityOf(groupedCities, PuneTile).status = "completed"
  /\ storage # NoItem
  /\ storage[1]["MH"][1].status = "running"
  /\ storage[1]["MH"][1].pincodes[1].status = "scanning"

\* In this step setItem was called and threw.
writeFailed ==
  /\ ~isLoading' /\ hasData(groupedCities')
  /\ groupedCities' # groupedCities \/ isLoading' # isLoading
  /\ storage' # mirror(groupedCities')

\* In this step reading the item threw.
readFailed == lastOp'.op = "restart" /\ storage # NoItem /\ ~hasData(groupedCities')

(* C19: a write of the snapshot that fails rolls nothing back and blocks nothing:  *)
(* the collection keeps the change of the step (the user's discover, stop and      *)
(* retry have their effect), the item stays what it was and loading stays over; a  *)
(* read that fails ends loading with an empty collection.                          *)
C19_StorageFailureIsHarmless ==
  [][/\ writeFailed =>
          /\ storage' = storage
          /\ ~isLoading' /\ loadData' = "done"
          /\ \A t \in Tiles(groupedCities) :
               /\ userDid("discover", t) => After(t).status = "running"
               /\ userDid("stop", t) => After(t).status = "stopped"
               /\ userDid("retry", t) =>
                    After(t).status = "running" /\ statusOf(After(t), lastOp'.code) = "pending"
     /\ readFailed => (~isLoading' /\ loadData' = "done")]_vars

\* Every write since the load has failed, and the district has been discovered to
\* completion all the same.
C19_Witness ==
  /\ ~isLoading
  /\ PuneTile \in Tiles(groupedCities)
  /\ cityOf(groupedCities, PuneTile).status = "completed"
  /\ storage = <<stringify(grouping(env.csv))>>

(* C20: after handleReset (which removes the item and empties the collection)      *)
(* loading eventually ends, with the default data loaded again as fresh districts  *)
(* (or, when the fetch of the CSV fails, with an empty collection).                *)
C20_ResetReloadsDefaults ==
  (lastOp.op = "reset") ~> (~isLoading /\ groupedCities \in {grouping(env.csv), <<>>})


(* ================== properties of the extraction client ================= *)

isAlnum(ch) == ch \in UpperChars \cup LowerChars \cup DigitChars

\* The letters and digits of an address, in order, letters in lower case.
lettersAndDigits(address) ==
  LET kept == SelectSeq(address, isAlnum)
  IN [i \in 1..Len(kept) |-> toLowerCase(kept[i])]

(* C22: createAddressFingerprint(address) is the address in lower case without the *)
(* characters that are not ASCII letters or digits; applying it to its own result  *)
(* changes nothing; two addresses that differ only in case, spaces and punctuation *)
(* have equal fingerprints, as "123, MG Road!" and "123 MG Road" have.             *)
C22_FingerprintNormalises ==
  probe.fn = "createAddressFingerprint" =>
    /\ probe.print # NotYet =>
         /\ probe.print[1] = lettersAndDigits(probe.address)
         /\ \A i \in 1..Len(probe.print[1]) : probe.print[1][i] \in LowerChars \cup DigitChars
    /\ probe.reprint # NotYet => probe.reprint = probe.print
    /\ (probe.print # NotYet /\ probe.otherPrint # NotYet
          /\ lettersAndDigits(probe.address) = lettersAndDigits(probe.other)) =>
         probe.print = probe.otherPrint

\* The two addresses have been fingerprinted, the first one twice.
C22_Witness ==
  /\ probe.fn = "createAddressFingerprint"
  /\ probe.address = Example1 /\ probe.other = Example2
  /\ probe.print = Returned(<<"1", "2", "3", "m", "g", "r", "o", "a", "d">>)
  /\ probe.otherPrint = probe.print
  /\ probe.reprint = probe.print


fingerprintOf(center) == createAddressFingerprint(center.address)

fingerprintsOf(centers) == {fingerprintOf(centers[i]) : i \in 1..Len(centers)}

\* The indexes of the candidates that are the first with their fingerprint and whose
\* fingerprint is not one of existing.
firstNew(candidates, existing) ==
  {i \in 1..Len(candidates) :
     /\ fingerprintOf(candidates[i]) \notin fingerprintsOf(existing)
     /\ \A j \in 1..(i - 1) : fingerprintOf(candidates[j]) # fingerprintOf(candidates[i])}

\* The elements of list at the indexes of the set, in the order of the list.
pick(list, indexes) ==
  [k \in 1..Cardinality(indexes) |->
     list[CHOOSE i \in indexes : Cardinality({j \in indexes : j < i}) = k - 1]]

(* C23: the filter returns the candidates, in their order, that are the first       *)
(* occurrence of a fingerprint which no existing center has; the fingerprints of    *)
(* what it returns are pairwise distinct and none is the fingerprint of an existing *)
(* center; parsedResponse and existingResults are left as they were.                *)
C23_FilterKeepsFirstNew ==
  [][(probe'.fn = "filter" /\ probe'.filteredResults # NotYet) =>
       LET out == probe'.filteredResults[1]
       IN /\ out = pick(probe.parsedResponse,
                        firstNew(probe.parsedResponse, probe.existingResults))
          /\ \A i \in 1..Len(out), j \in 1..Len(out) :
               i # j => fingerprintOf(out[i]) # fingerprintOf(out[j])
          /\ fingerprintsOf(out) \cap fingerprintsOf(probe.existingResults) = {}
          /\ probe'.existingResults = probe.existingResults
          /\ probe'.parsedResponse = probe.parsedResponse]_vars

\* Of three candidates the second repeats the first in another spelling and the third
\* is known already: only the first is returned.
C23_Witness ==
  /\ probe.fn = "filter"
  /\ probe.parsedResponse = <<ScanCenter(Addr1), ScanCenter(Addr2), ScanCenter(Addr3)>>
  /\ probe.existingResults = <<ScanCenter(Addr3)>>
  /\ probe.filteredResults = Returned(<<ScanCenter(Addr1)>>)

(* C24: filtering what the filter returned against the candidates returns nothing,  *)
(* and so does filtering it against the existing centers followed by what the       *)
(* filter returned.                                                                 *)
C24_FilterIsIdempotent ==
  probe.fn = "filter" =>
    /\ probe.against # NotYet => probe.against = Returned(<<>>)
    /\ probe.again # NotYet => probe.again = Returned(<<>>)

\* Two centers survived, with and without existing centers, and were filtered again
\* both ways.
C24_Witness ==
  /\ probe.fn = "filter"
  /\ probe.parsedResponse = <<ScanCenter(Addr2), ScanCenter(Addr3), ScanCenter(Addr1)>>
  /\ probe.existingResults = <<>>
  /\ probe.filteredResults = Returned(<<ScanCenter(Addr2), ScanCenter(Addr3)>>)
  /\ probe.again = Returned(<<>>) /\ probe.against = Returned(<<>>)


(* ================== more properties of the orchestrator ================= *)

\* This step changes something of tile t: its city record, its isCancelled flag or
\* its live invocations of processPincode (one begun, resumed, ended or marked).
touches(t) ==
  \/ After(t) # Before(t)
  \/ isCancelled'[t] # isCancelled[t]
  \/ \E r \in LiveRuns \cup BagToSet(runs') : r.tile = t /\ count(runs', r) # count(runs, r)

(* C21: an event of one district (discover, stop, retry, the start of an attempt,   *)
(* a success, a failure, the completion) leaves every other district's city record  *)
(* (pincodes, results, centersFound, status, error) and isCancelled flag as they    *)
(* were, and neither ends nor marks a live invocation of another district: a step   *)
(* touches one district at most, and an operation of the user only its own.         *)
C21_DistrictsAreIndependent ==
  [][/\ Tiles(groupedCities') = Tiles(groupedCities)
     /\ \A t \in Tiles(groupedCities), u \in Tiles(groupedCities) :
          t # u => /\ ~(touches(t) /\ touches(u))
                   /\ lastOp'.tile = t => ~touches(u)]_vars

\* Mumbai has just been stopped with a call outstanding; Pune is still running with
\* its own call outstanding, neither cancelled nor marked.
C21_Witness ==
  /\ lastOp.op = "stop" /\ lastOp.tile = <<"MH", "Mumbai">>
  /\ cityOf(groupedCities, <<"MH", "Mumbai">>).status = "stopped"
  /\ cityOf(groupedCities, PuneTile).status = "running"
  /\ statuses(cityOf(groupedCities, PuneTile)) = <<"scanning">>
  /\ ~isCancelled[PuneTile] /\ isCancelled[<<"MH", "Mumbai">>]
  /\ \E r \in LiveRuns : r.tile = PuneTile /\ r.pc = "call" /\ ~r.stopped
  /\ \E r \in LiveRuns : r.tile = <<"MH", "Mumbai">> /\ r.pc = "call" /\ r.stopped


\* This step begins an invocation of processPincode: r is its first suspension.
begins(r) == suspends(r) /\ r.attempt = 1 /\ r.pc = "call" /\ ~r.stopped

(* C25: whenever the scheduler effect begins processPincode for a pincode, the      *)
(* district is running and not cancelled, fewer than MAX_CONCURRENT_PINCODES (2)    *)
(* pincodes are scanning or retrying, and the pincode is the first of the list      *)
(* whose status is pending or error (an error pincode is picked without a retry by  *)
(* the user).                                                                       *)
C25_SchedulerPicksFirstEligible ==
  [][\A r \in BagToSet(runs') :
       begins(r) =>
         LET city == Before(r.tile)
         IN /\ city.status = "running"
            /\ ~isCancelled[r.tile]
            /\ activeScans(city) < MAX_CONCURRENT_PINCODES
            /\ \E i \in Indexes(city.pincodes) :
                 /\ city.pincodes[i].code = r.code
                 /\ city.pincodes[i].status \in {"pending", "error"}
                 /\ \A j \in 1..(i - 1) :
                      city.pincodes[j].status \notin {"pending", "error"}
            /\ statusOf(After(r.tile), r.code) = "scanning"]_vars

\* The second pincode failed three times and has been picked again by the scheduler:
\* the first is scanned, the district still shows the failure and no retry was asked.
C25_Witness ==
  /\ PuneTile \in Tiles(groupedCities)
  /\ statuses(cityOf(groupedCities, PuneTile)) = <<"scanned", "scanning">>
  /\ cityOf(groupedCities, PuneTile).error = FailedOn("411002")
  /\ cityOf(groupedCities, PuneTile).status = "running"
  /\ \E r \in LiveRuns : r.code = "411002" /\ r.attempt = 1 /\ r.pc = "call" /\ ~r.stopped


\* Pune is mounted, running and not cancelled, and every pincode is scanned.
puneReady ==
  /\ puneRunning
  /\ ~isCancelled[PuneTile]
  /\ everyScanned(cityOf(groupedCities, PuneTile))

puneCompleted ==
  /\ PuneTile \in Tiles(groupedCities)
  /\ cityOf(groupedCities, PuneTile).status = "completed"

(* C26: a district's status becomes completed only in a state where it is running,  *)
(* no pincode is pending, error, scanning or retrying and every pincode is scanned; *)
(* and a running district that is not cancelled and whose pincodes are all scanned  *)
(* eventually is completed, unless an operation of the user takes it out of that    *)
(* state first.                                                                     *)
C26_CompletedWhenAllScanned ==
  /\ [][\A t \in Tiles(groupedCities) \cap Tiles(groupedCities') :
          (Before(t).status # "completed" /\ After(t).status = "completed"
             /\ lastOp'.op # "restart") =>
            /\ Before(t).status = "running"
            /\ countStatus(Before(t), {"pending", "error", "scanning", "retrying"}) = 0
            /\ everyScanned(Before(t))
            /\ Before(t).pincodes # <<>>]_vars
  /\ puneReady ~> (puneCompleted \/ ~puneReady)

\* The scheduler effect has completed the district: both pincodes scanned, nothing
\* in flight.
C26_Witness ==
  /\ puneCompleted
  /\ lastOp = NoOp
  /\ runs = EmptyBag
  /\ statuses(cityOf(groupedCities, PuneTile)) = <<"scanned", "scanned">>


\* The changes of a pincode's status that the orchestrator is meant to make.
listed(old, new, op) ==
  \/ new = old
  \/ old \in {"pending", "error"} /\ new = "scanning"          \* picked by the scheduler
  \/ old = "scanning" /\ new = "retrying"                      \* a failed attempt
  \/ old \in {"scanning", "retrying"} /\ new = "scanned"       \* success
  \/ old \in {"scanning", "retrying"} /\ new = "error"         \* the last failure
  \/ old = "error" /\ new = "pending"                          \* retry by the user
  \/ old # "scanned" /\ new = "pending"                        \* stop
  \/ op = "discover" /\ new = "pending"                        \* starting over

(* C27: every change of a pincode's status is one of the listed ones; in particular *)
(* no pincode goes from pending or scanned to retrying or error.                    *)
C27_OnlyListedTransitions ==
  [][\A t \in Tiles(groupedCities) \cap Tiles(groupedCities') :
       \A i \in Indexes(Before(t).pincodes) :
         lastOp'.op # "restart" =>
           listed(Before(t).pincodes[i].status, After(t).pincodes[i].status, lastOp'.op)]_vars

(* C28: when handleStop was applied while an invocation of processPincode awaited   *)
(* its back-off timer, the firing of the timer ends the invocation: no further call *)
(* is issued and nothing of the collection changes, even if handleDiscover was      *)
(* applied before the timer fired.                                                  *)
C28_StoppedWaitIsAbandoned ==
  [][\A r \in LiveRuns :
       (r.pc = "wait" /\ r.stopped /\ TimerFires(r)) =>
         /\ BagCardinality(runs') = BagCardinality(runs) - 1
         /\ groupedCities' = groupedCities]_vars


(* C29: handleStop applied right after handleStop changes nothing (status stopped,  *)
(* the same pincode statuses, the same results); applied to a stopped district it   *)
(* changes no pincode status except that scanning and retrying become pending.      *)
C29_StopIsIdempotent ==
  probe.fn = "handleStop" =>
    /\ probe.once # NotYet =>
         /\ probe.once[1].city.status = "stopped"
         /\ probe.once[1].isCancelled
         /\ probe.once[1].city.results = probe.city.results
         /\ probe.city.status = "stopped" =>
              probe.once[1].city =
                [probe.city EXCEPT
                   !.pincodes = [i \in Indexes(probe.city.pincodes) |->
                                   [code |-> probe.city.pincodes[i].code,
                                    status |->
                                      IF probe.city.pincodes[i].status
                                           \in {"scanning", "retrying"}
                                        THEN "pending"
                                        ELSE probe.city.pincodes[i].status]]]
    /\ probe.twice # NotYet => probe.twice = probe.once

\* A stopped district with a retrying and an error pincode and a center was stopped
\* again, twice.
C29_Witness ==
  /\ probe.fn = "handleStop"
  /\ probe.city.status = "stopped"
  /\ statuses(probe.city) = <<"retrying", "error">>
  /\ probe.city.results # <<>>
  /\ probe.once # NotYet
  /\ statuses(probe.once[1].city) = <<"pending", "error">>
  /\ probe.twice = probe.once


\* No two elements of the list are equal.
distinct(list) ==
  \A i \in Indexes(list), j \in Indexes(list) : i # j => list[i] # list[j]

(* C30: the codes of the pincodes of a district are pairwise distinct in every      *)
(* reachable state, and every step (operation of the user, scheduler effect,        *)
(* settling call, timer, merge) keeps the codes of the district in place: a merge   *)
(* only appends codes, any other step leaves the list of codes as it was.           *)
C30_CodesDistinctAndStable ==
  [][/\ \A t \in Tiles(groupedCities') : distinct(codes(After(t)))
     /\ \A t \in Tiles(groupedCities) :
          /\ distinct(codes(Before(t)))
          /\ t \in Tiles(groupedCities')
          /\ isPrefix(codes(Before(t)), codes(After(t)))
          /\ ~merged => codes(After(t)) = codes(Before(t))]_vars

\* A merge has appended a pincode to a district whose first pincode is scanned, and
\* the scheduler has picked the new one.
C30_Witness ==
  \E t \in Tiles(groupedCities) :
    /\ codes(Before(t)) = <<"411001", "411003">>
    /\ statuses(Before(t)) = <<"scanned", "scanning">>
    /\ Before(t).population = 150
    /\ \E r \in LiveRuns : r.code = "411003" /\ r.pc = "call"

(* =============== the scheduler effect right after the commit ============ *)

MaxRunsRun == 2
MaxRunsEager == 3

\* The scheduler effect of tile t has something to do with the committed cityData:
\* the district is to be completed, or a pincode is to be started.
schedulerDue(t) ==
  LET city == cityOf(groupedCities, t)
  IN /\ schedulerAwake(t)
     /\ \/ nextPincode(city) = 0 /\ activeScans(city) = 0 /\ everyScanned(city)
        \/ nextPincode(city) # 0 /\ activeScans(city) < MAX_CONCURRENT_PINCODES

\* React runs the effects of a commit before the next event, timer or promise
\* callback renders: while an effect is due nothing else is handled.
effectsPending == \E t \in Tiles(groupedCities) : schedulerDue(t)

\* The effect is to start a pincode and the bound on live invocations is reached:
\* the behaviour is followed no further.
cutOff ==
  \E t \in Tiles(groupedCities) :
    /\ schedulerDue(t)
    /\ nextPincode(cityOf(groupedCities, t)) # 0
    /\ BagCardinality(runs) >= env.maxRuns

ScenarioRun ==
  \* two pincodes and a file that adds a third, a service that may find a center
  [ csv |-> <<NewCity("MH", "Pune", 100, <<"411001", "411002">>)>>,
    uploads |-> { <<NewCity("MH", "Pune", 100, <<"411002", "411003">>)>> },
    payloads |-> { <<ScanCenter(Addr1)>> } ]

InitRun == InitFrom({ScenarioRun}, MaxRunsRun)

\* The events of a session in which the user never stops a district. No pincode is
\* left in error for the user to retry: the effect picks it again at once, in the
\* slot its invocation has freed.
NextRun ==
  \/ \E t \in Tiles(groupedCities) : SchedulerCompletes(t)
  \/ \E t \in Tiles(groupedCities) : SchedulerStarts(t)
  \/ ~effectsPending /\ \E t \in Tiles(groupedCities) : HandleDiscover(t)
  \/ ~effectsPending /\ \E u \in env.uploads : HandleAdditionalDataUpload(u)
  \/ ~effectsPending /\ \E r \in LiveRuns, resp \in Responses(env.payloads) : CallResolves(r, resp)
  \/ ~effectsPending /\ \E r \in LiveRuns : CallRejects(r)
  \/ ~effectsPending /\ \E r \in LiveRuns : TimerFires(r)

\* What the program does by itself it does eventually: a call settles, a timer
\* fires. Nothing is assumed of the user, and a call may reject every time.
SpecRun ==
  /\ InitRun /\ [][NextRun]_vars
  /\ WF_vars(\E t \in Tiles(groupedCities) : SchedulerStarts(t))
  /\ WF_vars(\E t \in Tiles(groupedCities) : SchedulerCompletes(t))
  /\ WF_vars(~effectsPending /\ \E r \in LiveRuns :
               CallRejects(r) \/ CallResolves(r, [kind |-> "blank", body |-> <<>>]))
  /\ WF_vars(~effectsPending /\ \E r \in LiveRuns : TimerFires(r))

\* Moreover the calls do not reject for ever: when calls are issued again and
\* again, one of them resolves.
SpecLucky ==
  /\ SpecRun
  /\ SF_vars(~effectsPending /\ \E r \in LiveRuns :
               CallResolves(r, [kind |-> "blank", body |-> <<>>]))

InitEager == InitFrom({ScenarioThree}, MaxRunsEager)

\* The events of a session in which the user may stop a district as well.
NextEager ==
  \/ \E t \in Tiles(groupedCities) : SchedulerCompletes(t)
  \/ \E t \in Tiles(groupedCities) : SchedulerStarts(t)
  \/ ~effectsPending /\ \E t \in Tiles(groupedCities) : HandleDiscover(t)
  \/ ~effectsPending /\ \E t \in Tiles(groupedCities) : HandleStop(t)
  \/ ~effectsPending /\ \E t \in Tiles(groupedCities), i \in 1..3 : HandleManualRetry(t, i)
  \/ ~effectsPending /\ \E r \in LiveRuns, resp \in Responses(env.payloads) : CallResolves(r, resp)
  \/ ~effectsPending /\ \E r \in LiveRuns : CallRejects(r)
  \/ ~effectsPending /\ \E r \in LiveRuns : TimerFires(r)

SpecEager ==
  /\ InitEager /\ [][NextEager]_vars
  /\ WF_vars(\E t \in Tiles(groupedCities) : SchedulerStarts(t))
  /\ WF_vars(\E t \in Tiles(groupedCities) : SchedulerCompletes(t))
  /\ WF_vars(~effectsPending /\ \E r \in LiveRuns :
               CallRejects(r) \/ CallResolves(r, [kind |-> "blank", body |-> <<>>]))
  /\ WF_vars(~effectsPending /\ \E r \in LiveRuns : TimerFires(r))

\* Pune is completed and every pincode it has is scanned.
puneAllScanned ==
  /\ puneCompleted
  /\ everyScanned(cityOf(groupedCities, PuneTile))
  /\ activeScans(cityOf(groupedCities, PuneTile)) = 0

(* C31: a district that was started and is never stopped, whose calls all settle    *)
(* and do not reject for ever, eventually is completed with every pincode scanned   *)
(* (the pincodes a merge added meanwhile included).                                 *)
C31_StartedDistrictCompletes == puneRunning ~> puneAllScanned

\* Pune was completed with the pincode a merge added: all three pincodes are
\* scanned, a center was found, no invocation is left.
C31_Witness ==
  /\ puneAllScanned
  /\ Len(cityOf(groupedCities, PuneTile).pincodes) = 3
  /\ cityOf(groupedCities, PuneTile).centersFound = 1
  /\ runs = EmptyBag

\* Pune is running, not cancelled, and this pincode is pending.
punePending(code) ==
  /\ puneRunning
  /\ ~isCancelled[PuneTile]
  /\ code \in {p.code : p \in {cityOf(groupedCities, PuneTile).pincodes[i] :
                                 i \in Indexes(cityOf(groupedCities, PuneTile).pincodes)}}
  /\ statusOf(cityOf(groupedCities, PuneTile), code) = "pending"

(* C32: while a district stays running and every call settles, every pending       *)
(* pincode eventually is picked for an attempt, also when the pincodes before it    *)
(* in the list fail on every attempt.                                               *)
C32_PendingIsPickedDespiteFailures ==
  \A code \in {"411001", "411002", "411003"} :
    punePending(code) ~> (attempted(code) \/ ~puneRunning)

\* Pune is running with a pincode to pick, a free slot and no call outstanding.
puneIdling ==
  /\ puneRunning
  /\ nextPincode(cityOf(groupedCities, PuneTile)) # 0
  /\ activeScans(cityOf(groupedCities, PuneTile)) < MAX_CONCURRENT_PINCODES
  /\ callsInFlight(PuneTile) = 0

(* C33: after handleManualRetry on a pincode in error, whatever the state of the    *)
(* district was (stopped by handleStop included), the pincode eventually is picked  *)
(* by the scheduler and attempted again; and the district does not stay running     *)
(* for ever with a pincode to pick, a free slot and no call outstanding.            *)
C33_RetriedPincodeIsAttempted ==
  /\ \A code \in {"411001", "411002", "411003"} :
       (lastOp.op = "retry" /\ lastOp.code = code)
         ~> (attempted(code) \/ ~puneRunning \/ cutOff)
  /\ puneIdling ~> (~puneIdling \/ cutOff)

\* The live invocations of processPincode of tile t for this pincode.
runsFor(t, code) ==
  LET live == {r \in LiveRuns : r.tile = t /\ r.code = code}
  IN BagCardinality([r \in live |-> runs[r]])

(* C34: at every instant there is at most one live invocation of processPincode per *)
(* pincode of a district: no invocation is started for a pincode while an earlier   *)
(* one for that pincode can still apply its updates (its tile is not cancelled).    *)
C34_OneInvocationPerPincode ==
  \A t \in Tiles(groupedCities) :
    ~isCancelled[t] =>
      \A i \in Indexes(cityOf(groupedCities, t).pincodes) :
        runsFor(t, cityOf(groupedCities, t).pincodes[i].code) <= 1

\* This step is handleDiscover on tile t taking the branch that starts over.
startsOver(t) ==
  /\ userDid("discover", t)
  /\ (Before(t).status = "completed" \/ ~hasScannedPincodes(Before(t)))

(* C35: a pincode that is scanned stays scanned until handleDiscover starts the     *)
(* district over (it was completed, or had no scanned pincode): no success, no      *)
(* failure, no further attempt, no handleStop and no handleManualRetry changes the  *)
(* status of a scanned pincode.                                                     *)
C35_ScannedStaysScanned ==
  [][\A t \in Tiles(groupedCities) \cap Tiles(groupedCities') :
       \A i \in Indexes(Before(t).pincodes) :
         (Before(t).pincodes[i].status = "scanned" /\ ~startsOver(t)) =>
           After(t).pincodes[i].status = "scanned"]_vars

\* The statuses in which a district is at rest.
atRest(city) == city.status \in {"idle", "stopped", "completed"}

(* C36: in every reachable state in which a district's status is idle, stopped or   *)
(* completed none of its pincodes is scanning or retrying, and its results and the  *)
(* statuses of its pincodes do not change until the next handleDiscover,            *)
(* handleManualRetry or merge.                                                      *)
C36_AtRestNothingChanges ==
  [][\A t \in Tiles(groupedCities) \cap Tiles(groupedCities') :
       /\ atRest(After(t)) => activeScans(After(t)) = 0
       /\ (atRest(Before(t)) /\ lastOp'.op \notin {"discover", "retry", "merge"}) =>
            /\ After(t).results = Before(t).results
            /\ statuses(After(t)) = statuses(Before(t))]_vars

\* The district is completed, has results, and a merge has left it a pending pincode.
extendedWhenCompleted(city) ==
  /\ city.status = "completed"
  /\ city.results # <<>>
  /\ countStatus(city, {"scanned"}) > 0
  /\ countStatus(city, {"pending"}) > 0

(* C37: after a merge has added pending pincodes to a district that has accumulated *)
(* results, a completed district in particular, the new pincodes can be scanned     *)
(* with the accumulated results and the scanned pincodes kept: handleDiscover, the  *)
(* operation that sets such a district running, keeps them.                         *)
C37_ExtendedDistrictKeepsResults ==
  [][\A t \in Tiles(groupedCities) \cap Tiles(groupedCities') :
       (extendedWhenCompleted(Before(t)) /\ userDid("discover", t)) =>
         /\ After(t).results = Before(t).results
         /\ \A i \in Indexes(Before(t).pincodes) :
              Before(t).pincodes[i].status = "scanned" =>
                After(t).pincodes[i].status = "scanned"]_vars

C39_MergeIsIdempotent ==
  \A newCities \in env.uploads :
    mergeAdditionalCities(mergeAdditionalCities(groupedCities, newCities), newCities)
      = mergeAdditionalCities(groupedCities, newCities)

\* A collection that merges have extended and that a file of the user would extend
\* by a district, a pincode or a larger population once more.
C39_Witness ==
  /\ lastOp.op = "merge"
  /\ pincodeCount(groupedCities) > lastOp.was
  /\ \E newCities \in env.uploads :
       LET once == mergeAdditionalCities(groupedCities, newCities)
       IN /\ once # groupedCities
          /\ pincodeCount(once) > pincodeCount(groupedCities)
          /\ mergeAdditionalCities(once, newCities) = once

(* ============== handleReset while calls are outstanding ================= *)

MaxRunsReset == 2

\* The tiles on the page: none while "Loading city data..." is shown.
Mounted == IF isLoading THEN {} ELSE Tiles(groupedCities)

\* The invocations of processPincode whose tile is on the page, and those whose
\* tile was unmounted by handleReset.
MountedRuns == {r \in LiveRuns : r.tile \in Mounted}
OrphanRuns == {r \in LiveRuns : r.tile \notin Mounted}

\* handleReset with the invocations of processPincode followed further: the tiles
\* unmount, their invocations stay suspended at their awaits. Those of a cancelled
\* tile end at their next step without an update (the ref of an unmounted tile is
\* set no more); the others apply their updates through handleUpdateCity.
HandleResetInFlight ==
  /\ ~isLoading /\ hasData(groupedCities)
  /\ storage' = NoItem
  /\ isLoading' = TRUE
  /\ groupedCities' = <<>>
  /\ isCancelled' = <<>>
  /\ runs' = LET kept == {r \in LiveRuns : ~isCancelled[r.tile]}
             IN [r \in kept |-> runs[r]]
  /\ lastOp' = Event("reset", <<>>, NoCode, <<>>)
  /\ UNCHANGED <<env, loadData, probe>>

\* The call of an unmounted tile resolves: the success update is handed to
\* handleUpdateCity.
OrphanCallResolves(r, resp) ==
  /\ r.pc = "call"
  /\ ~callRejects(resp)
  /\ runs' = finish(r)
  /\ groupedCities' = handleUpdateCity(groupedCities, r.tile[1], r.tile[2],
                         [kind |-> "success", code |-> r.code,
                          centers |-> findAndAnalyzeCTScans(resp, r.known)])
  /\ lastOp' = NoOp
  /\ UNCHANGED <<isCancelled, env>>
  /\ commit

\* The call of an unmounted tile rejects: the catch block, and after the last
\* attempt the error update.
OrphanCallRejects(r) ==
  /\ r.pc = "call"
  /\ lastOp' = NoOp
  /\ UNCHANGED <<isCancelled, env>>
  /\ IF r.attempt < MAX_RETRIES
       THEN /\ runs' = finish(r) (+) SetToBag({Run(r.tile, r.code, r.attempt, "wait", {})})
            /\ noCommit
       ELSE /\ runs' = finish(r)
            /\ groupedCities' = handleUpdateCity(groupedCities, r.tile[1], r.tile[2],
                                   [kind |-> "error", code |-> r.code])
            /\ commit

\* The timer of an unmounted tile fires: the attempt update and the next call (with
\* the results latestCityRef held, none in this environment).
OrphanTimerFires(r) ==
  /\ r.pc = "wait"
  /\ runs' = finish(r) (+) SetToBag({Run(r.tile, r.code, r.attempt + 1, "call", {})})
  /\ groupedCities' = handleUpdateCity(groupedCities, r.tile[1], r.tile[2],
                         [kind |-> "attempt", code |-> r.code, attempt |-> r.attempt + 1])
  /\ lastOp' = NoOp
  /\ UNCHANGED <<isCancelled, env>>
  /\ commit

InitReset == InitFrom({ScenarioStore}, MaxRunsReset)

NextReset ==
  \/ \E t \in Mounted : HandleDiscover(t)
  \/ \E t \in Mounted : HandleStop(t)
  \/ \E t \in Mounted : SchedulerCompletes(t)
  \/ \E t \in Mounted : SchedulerStarts(t)
  \/ \E r \in MountedRuns, resp \in Responses(env.payloads) : CallResolves(r, resp)
  \/ \E r \in MountedRuns : CallRejects(r)
  \/ \E r \in MountedRuns : TimerFires(r)
  \/ HandleResetInFlight
  \/ \E r \in OrphanRuns, resp \in Responses(env.payloads) : OrphanCallResolves(r, resp)
  \/ \E r \in OrphanRuns : OrphanCallRejects(r)
  \/ \E r \in OrphanRuns : OrphanTimerFires(r)

\* A session that ends with "Reset & Reload Data".
SpecReset == InitReset /\ [][NextReset]_vars

\* The updaters a tile may hand to handleUpdateCity.
Updaters ==
  { [kind |-> "completed"], [kind |-> "discover"], [kind |-> "stop"],
    [kind |-> "attempt", code |-> "411001", attempt |-> 2],
    [kind |-> "success", code |-> "411001", centers |-> <<ScanCenter(Addr1)>>],
    [kind |-> "error", code |-> "411001"],
    [kind |-> "retry", code |-> "411001"] }

\* Tiles that are not in the collection: Pune once it is cleared, a district that
\* its state does not have, a state that the collection does not have.
AbsentTiles(grouped) ==
  {<<"MH", "Pune">>, <<"MH", "Nagpur">>, <<"KA", "Mysuru">>} \ Tiles(grouped)

(* C40: after handleReset, a call that was outstanding for a district of the        *)
(* cleared collection creates neither that district nor any other entry when it     *)
(* settles (nor does its timer or its last failure); and an update addressed to a   *)
(* state or a district name that the collection does not have leaves the            *)
(* collection as it is.                                                             *)
C40_SettlingAfterResetCreatesNothing ==
  [][/\ OrphanRuns # {} => (groupedCities' = groupedCities /\ storage' = storage)
     /\ \A t \in AbsentTiles(groupedCities), u \in Updaters :
          handleUpdateCity(groupedCities, t[1], t[2], u) = groupedCities]_vars

\* handleReset has cleared the collection and the last of the calls that were
\* outstanding has settled since.
C40_Witness ==
  /\ isLoading /\ loadData = "done"
  /\ groupedCities = <<>>
  /\ storage = NoItem
  /\ lastOp = NoOp
  /\ runs = EmptyBag

====
